---- MODULE Spec2Model ----
(***************************************************************************)
(* A model of the PhonePe Pulse ETL pipeline:                              *)
(*   utils/helpers.py          string normalisers, extract_year_quarter    *)
(*   scripts/extract_data.py   the six extractors, extract_all_data        *)
(*   scripts/transform_data.py the six transform_* functions               *)
(*   database/insert_data.py   the six insert_* functions, insert_all_data *)
(*   database/db_connection.py the connection and the schema setup         *)
(*   main.py                   setup_database, run_etl_pipeline            *)
(*                                                                         *)
(* Python strings are sequences of one-character strings, a character      *)
(* outside ASCII written as its code point ("U+0131"); Python's None       *)
(* in a string position is PyNone.  A numeric cell is a set holding the    *)
(* number, or the empty set when pandas cannot coerce the cell (None, a    *)
(* non-numeric string): that is the NaN of pd.to_numeric(errors='coerce'). *)
(***************************************************************************)
EXTENDS Integers, Sequences, FiniteSets, TLC

VARIABLES
    \* extract_year_quarter
    file_path,      \* the argument
    yq_pc,          \* "idle" | "call" | "done"
    yq_result,      \* <<year, quarter>>, each None or Some(n)
    \* transform_*
    tf_ds,          \* the dataset the DataFrame belongs to, or "none"
    tf_in,          \* the extracted rows (DataFrame built from the list)
    tf_out,         \* the transformed rows
    tf_pc,          \* "idle" | "call" | "done"
    \* the sink
    tables,         \* committed rows of the six tables
    txn,            \* the connection's view: committed rows and its own
                    \* uncommitted writes
    \* insert_<dataset>
    ld_ds,          \* the dataset of the insert_* function in use, or "none"
    ld_pc,          \* "idle" | "exec" | "commit" | "rollback"
    ld_df,          \* the DataFrame argument of the current or last call
    ld_i,           \* number of records executemany has written
    ld_log,         \* what the last call logged: "none" | "empty" | "inserted" | "error"
    ld_calls,       \* number of calls made
    ld_before,      \* the tables as they were when the current or last call began
    \* run_etl_pipeline and insert_all_data
    run_pc,         \* "idle" | "setup" | "clone" | "extract" | "check" | "transform"
                    \* | "connect" | "insert" | "finish" | "summary" | "exit"
    run_i,          \* position of insert_all_data in the six datasets
    extracted_data, \* the lists extract_all_data returned
    transformed_data, \* the DataFrames transform_all_data returned, by dataset
    conn,           \* "unbound" | "open" | "closed"
    error_log,      \* the datasets whose insert_* logged an error
    success_log,    \* the completion messages logged
    failure_log,    \* "none", or the exception run_etl_pipeline logged
    exit_code,      \* None while running, then Some(0) or Some(1)
    \* the cloned repository and extract_all_data
    repo,           \* the .json files under each dataset's base path, as
                    \* find_json_files lists them
    ex_i,           \* position of extract_all_data in the six extractors
    \* normalize_state_name
    nm_in,          \* the argument of the first call
    nm_out,         \* the results of the successive calls, each applied to
                    \* the result before it
    \* setup_database
    setup_conn,     \* the connection each function of setup_database opens:
                    \* "unbound" | "open" | "closed"
    \* clean_string
    cl_in,          \* the argument of the first call
    cl_out          \* the results of the successive calls, each applied to
                    \* the result before it

vars == <<file_path, yq_pc, yq_result, tf_ds, tf_in, tf_out, tf_pc,
          tables, txn, ld_ds, ld_pc, ld_df, ld_i, ld_log, ld_calls, ld_before,
          run_pc, run_i, extracted_data, transformed_data, conn, setup_conn, error_log,
          success_log, failure_log, exit_code, repo, ex_i, nm_in, nm_out,
          setup_conn, cl_in, cl_out>>

yqVars == <<file_path, yq_pc, yq_result>>
tfVars == <<tf_ds, tf_in, tf_out, tf_pc>>
ldVars == <<tables, txn, ld_ds, ld_pc, ld_df, ld_i, ld_log, ld_calls, ld_before>>
exVars == <<repo, ex_i>>
nmVars == <<nm_in, nm_out>>
clVars == <<cl_in, cl_out>>

\* run_etl_pipeline's variables
runVars == <<run_pc, run_i, extracted_data, transformed_data, conn, setup_conn, error_log,
            success_log, failure_log, exit_code>>

\* what the steps of an insert_* call leave alone
restVars == <<yqVars, tfVars, exVars, nmVars, clVars, run_pc, run_i, extracted_data,
             transformed_data, conn, setup_conn, success_log, failure_log, exit_code>>

-----------------------------------------------------------------------------
(* Python values *)

None == {}
Some(x) == {x}
Val(o) == CHOOSE x \in o : TRUE

PyNone == <<"None">>
\* a number where the code expects a string (a JSON name that is a number)
PyInt == <<"int">>

Digits == <<"0", "1", "2", "3", "4", "5", "6", "7", "8", "9">>
LowerChars == <<"a", "b", "c", "d", "e", "f", "g", "h", "i", "j", "k", "l", "m",
                "n", "o", "p", "q", "r", "s", "t", "u", "v", "w", "x", "y", "z">>
UpperChars == <<"A", "B", "C", "D", "E", "F", "G", "H", "I", "J", "K", "L", "M",
                "N", "O", "P", "Q", "R", "S", "T", "U", "V", "W", "X", "Y", "Z">>
Whitespace == {" ", "\t"}
\* LATIN SMALL LETTER DOTLESS I: a lower-case letter whose upper case and
\* title case is "I"
DotlessI == "U+0131"

Range(s) == {s[i] : i \in DOMAIN s}

IsDigitChar(c) == c \in Range(Digits)
DigitVal(c) == (CHOOSE i \in DOMAIN Digits : Digits[i] = c) - 1
IsLetter(c) == c \in Range(LowerChars) \cup Range(UpperChars) \cup {DotlessI}
IsWordChar(c) == IsLetter(c) \/ IsDigitChar(c) \/ c = "_"

LowerChar(c) ==
    IF c \in Range(UpperChars)
    THEN LowerChars[CHOOSE i \in DOMAIN UpperChars : UpperChars[i] = c]
    ELSE c
UpperChar(c) ==
    IF c \in Range(LowerChars)
    THEN UpperChars[CHOOSE i \in DOMAIN LowerChars : LowerChars[i] = c]
    ELSE IF c = DotlessI THEN "I" ELSE c

\* str.isdigit(): non-empty and every character a digit
IsDigit(s) == Len(s) > 0 /\ \A i \in DOMAIN s : IsDigitChar(s[i])

\* int(s) for a digit string
RECURSIVE ToInt(_)
ToInt(s) ==
    IF Len(s) = 0 THEN 0
    ELSE 10 * ToInt(SubSeq(s, 1, Len(s) - 1)) + DigitVal(s[Len(s)])

\* s.startswith(p)
StartsWith(s, p) == Len(s) >= Len(p) /\ SubSeq(s, 1, Len(p)) = p

\* s.replace(old, new): every non-overlapping occurrence, left to right
RECURSIVE Replace(_, _, _)
Replace(s, old, new) ==
    LET hits == {i \in 1..(Len(s) - Len(old) + 1) : SubSeq(s, i, i + Len(old) - 1) = old}
    IN IF hits = {} THEN s
       ELSE LET first == CHOOSE i \in hits : \A j \in hits : i <= j
            IN SubSeq(s, 1, first - 1) \o new
               \o Replace(SubSeq(s, first + Len(old), Len(s)), old, new)

\* s.split(sep) for a one-character separator: the list of fields
RECURSIVE Split(_, _)
Split(s, sep) ==
    LET hits == {i \in DOMAIN s : s[i] = sep}
    IN IF hits = {} THEN <<s>>
       ELSE LET first == CHOOSE i \in hits : \A j \in hits : i <= j
            IN <<SubSeq(s, 1, first - 1)>> \o Split(SubSeq(s, first + 1, Len(s)), sep)

\* s.lower()
Lower(s) == [i \in DOMAIN s |-> LowerChar(s[i])]

\* s.strip(): leading and trailing whitespace removed
RECURSIVE LStrip(_)
LStrip(s) ==
    IF Len(s) > 0 /\ s[1] \in Whitespace THEN LStrip(Tail(s)) ELSE s
RECURSIVE RStrip(_)
RStrip(s) ==
    IF Len(s) > 0 /\ s[Len(s)] \in Whitespace
    THEN RStrip(SubSeq(s, 1, Len(s) - 1)) ELSE s
Strip(s) == RStrip(LStrip(s))

\* s.title(): a letter that follows a non-letter is upper-cased, any other
\* letter lower-cased
Title(s) ==
    [i \in DOMAIN s |->
        IF i = 1 \/ ~IsLetter(s[i - 1]) THEN UpperChar(s[i]) ELSE LowerChar(s[i])]

\* ' '.join(s.split()): runs of whitespace become one space, none at the ends
RECURSIVE JoinSplitAcc(_, _)
JoinSplitAcc(s, pending) ==
    IF Len(s) = 0 THEN <<>>
    ELSE IF s[1] \in Whitespace THEN JoinSplitAcc(Tail(s), TRUE)
         ELSE (IF pending THEN <<" ", s[1]>> ELSE <<s[1]>>)
              \o JoinSplitAcc(Tail(s), FALSE)
JoinSplit(s) == JoinSplitAcc(LStrip(s), FALSE)

\* re.sub(r'[^\w\s-]', '', s)
RECURSIVE RemoveSpecial(_)
RemoveSpecial(s) ==
    IF Len(s) = 0 THEN <<>>
    ELSE (IF IsWordChar(s[1]) \/ s[1] \in Whitespace \/ s[1] = "-"
          THEN <<s[1]>> ELSE <<>>) \o RemoveSpecial(Tail(s))

-----------------------------------------------------------------------------
(* utils/helpers.py *)

A_andaman == <<"a","n","d","a","m","a","n"," ","&"," ","n","i","c","o","b","a","r"," ","i","s","l","a","n","d","s">>
N_andaman == <<"a","n","d","a","m","a","n"," ","a","n","d"," ","n","i","c","o","b","a","r"," ","i","s","l","a","n","d","s">>
A_dadra == <<"d","a","d","r","a"," ","&"," ","n","a","g","a","r"," ","h","a","v","e","l","i"," ","&"," ","d","a","m","a","n"," ","&"," ","d","i","u">>
N_dadra == <<"d","a","d","r","a"," ","a","n","d"," ","n","a","g","a","r"," ","h","a","v","e","l","i"," ","a","n","d"," ","d","a","m","a","n"," ","a","n","d"," ","d","i","u">>
A_jammu == <<"j","a","m","m","u"," ","&"," ","k","a","s","h","m","i","r">>
N_jammu == <<"j","a","m","m","u"," ","a","n","d"," ","k","a","s","h","m","i","r">>

\* a normalizer without the table of special cases
state_mappings_none(normalized) == normalized
\* state_mappings.get(normalized, normalized)
state_mappings(normalized) ==
    CASE normalized = A_andaman -> N_andaman
      [] normalized = A_dadra -> N_dadra
      [] normalized = A_jammu -> N_jammu
      [] OTHER -> normalized

normalize_state_name(state_name) ==
    IF state_name = PyNone \/ state_name = <<>> THEN <<>>
    ELSE Title(state_mappings(Strip(Lower(state_name))))

clean_string(text) ==
    IF text = PyNone \/ text = <<>> THEN <<>>
    ELSE Strip(RemoveSpecial(JoinSplit(text)))

\* clean_string on a number: "not text" is false for a non-zero number and
\* text.split() raises AttributeError
clean_string_raises(text) == text = PyInt

MinYear == 2018
MaxYear == 2024
MinQuarter == 1
MaxQuarter == 4
YearDigits == 4

Ext_json == <<".", "j", "s", "o", "n">>

\* the test of line 63
IsYearPart(part) ==
    /\ IsDigit(part)
    /\ Len(part) = YearDigits
    /\ MinYear <= ToInt(part) /\ ToInt(part) <= MaxYear

\* the next part taken as it stands, extension and all
NextPartRaw(part) == part

\* lines 67-68: the next part with '.json' and '\' removed is a quarter
NextPart(part) == Replace(Replace(part, Ext_json, <<>>), <<"\\">>, <<>>)
IsQuarterPart(part) ==
    /\ IsDigit(NextPart(part))
    /\ MinQuarter <= ToInt(NextPart(part)) /\ ToInt(NextPart(part)) <= MaxQuarter

\* the for loop of lines 61-70 from index i on, year being the value held so far
RECURSIVE ScanParts(_, _, _)
ScanParts(parts, i, year) ==
    IF i > Len(parts) THEN <<year, None>>
    ELSE IF IsYearPart(parts[i])
         THEN IF i + 1 <= Len(parts) /\ IsQuarterPart(parts[i + 1])
              THEN <<Some(ToInt(parts[i])), Some(ToInt(NextPart(parts[i + 1])))>>
              ELSE ScanParts(parts, i + 1, Some(ToInt(parts[i])))
         ELSE ScanParts(parts, i + 1, year)

PathParts(path) == Split(Replace(path, <<"\\">>, <<"/">>), "/")

extract_year_quarter(path) == ScanParts(PathParts(path), 1, None)


-----------------------------------------------------------------------------
(* Components at rest: the values a component's variables hold in a         *)
(* specification that does not exercise it.                                 *)

DS == {"aggregated_transactions", "aggregated_users", "map_transactions",
       "map_users", "top_transactions", "top_users"}

EmptyTables == [d \in DS |-> {}]

YqIdle == file_path = <<>> /\ yq_pc = "idle" /\ yq_result = <<None, None>>
TfIdle == tf_ds = "none" /\ tf_in = <<>> /\ tf_out = <<>> /\ tf_pc = "idle"
LdIdle ==
    /\ tables = EmptyTables /\ txn = EmptyTables
    /\ ld_ds = "none" /\ ld_pc = "idle" /\ ld_df = <<>> /\ ld_i = 0
    /\ ld_log = "none" /\ ld_calls = 0 /\ ld_before = EmptyTables
\* the two functions of setup_database that open a connection
SetupFunctions == {"create_database_if_not_exists", "execute_sql_file"}
NoSetupConn == [f \in SetupFunctions |-> "unbound"]

RunIdle ==
    /\ run_pc = "idle" /\ run_i = 0
    /\ setup_conn = NoSetupConn
    /\ extracted_data = [d \in DS |-> <<>>]
    /\ transformed_data = [d \in {} |-> <<>>]
    /\ conn = "unbound" /\ error_log = {} /\ success_log = {} /\ exit_code = None
    /\ failure_log = "none"
ExIdle == repo = [d \in DS |-> <<>>] /\ ex_i = 0
NmIdle == nm_in = <<>> /\ nm_out = <<>>
ClIdle == cl_in = <<>> /\ cl_out = <<>>

-----------------------------------------------------------------------------
(* Specification SpecPath: extract_year_quarter on bounded paths *)

MaxSegs == 4

Seg_india == <<"i", "n", "d", "i", "a">>
Seg_2017 == <<"2", "0", "1", "7">>
Seg_2019 == <<"2", "0", "1", "9">>
Seg_2024 == <<"2", "0", "2", "4">>
Seg_1 == <<"1">>
Seg_3json == <<"3", ".", "j", "s", "o", "n">>
Seg_5json == <<"5", ".", "j", "s", "o", "n">>
Seg_xjson == <<"x", ".", "j", "s", "o", "n">>

PathSegs == {Seg_india, Seg_2017, Seg_2019, Seg_2024, Seg_1, Seg_3json,
             Seg_5json, Seg_xjson}
PathSeps == {"/", "\\"}

\* os.path.join of the segments with one separator
RECURSIVE JoinPath(_, _)
JoinPath(segs, sep) ==
    IF Len(segs) = 0 THEN <<>>
    ELSE IF Len(segs) = 1 THEN segs[1]
         ELSE segs[1] \o <<sep>> \o JoinPath(Tail(segs), sep)

Paths ==
    {JoinPath(segs, sep) :
        segs \in UNION {[1..k -> PathSegs] : k \in 1..MaxSegs}, sep \in PathSeps}

InitPath ==
    /\ file_path \in Paths
    /\ yq_pc = "call"
    /\ yq_result = <<None, None>>
    /\ TfIdle
    /\ LdIdle
    /\ RunIdle
    /\ ExIdle
    /\ NmIdle
    /\ ClIdle

ExtractYearQuarter ==
    /\ yq_pc = "call"
    /\ yq_result' = extract_year_quarter(file_path)
    /\ yq_pc' = "done"
    /\ UNCHANGED <<file_path, tfVars, ldVars, runVars, exVars, nmVars, clVars>>

NextPath == ExtractYearQuarter

SpecPath == InitPath /\ [][NextPath]_vars

(* What the claims about paths speak of, stated on the path's segments     *)
(* without the resolver's own tests.                                        *)

Segments(path) == Split(Replace(path, <<"\\">>, <<"/">>), "/")

\* a 4-digit numeral inside the accepted range
YearSegment(seg) ==
    /\ Len(seg) = 4
    /\ \A i \in DOMAIN seg : IsDigitChar(seg[i])
    /\ ToInt(seg) \in 2018..2024

\* the segment without its extension
Stem(seg) == Replace(seg, Ext_json, <<>>)

\* with its extension stripped, a numeral in 1..4
QuarterSegment(seg) ==
    /\ Len(Stem(seg)) > 0
    /\ \A i \in DOMAIN Stem(seg) : IsDigitChar(Stem(seg)[i])
    /\ ToInt(Stem(seg)) \in 1..4

\* <Q>.json with Q one of 1, 2, 3, 4
QuarterFile(seg) == \E q \in 1..4 : seg = <<Digits[q + 1]>> \o Ext_json

\* an in-range year segment at i immediately followed by a quarter segment
PairAt(segs, i) ==
    /\ i \in 1..(Len(segs) - 1)
    /\ YearSegment(segs[i])
    /\ QuarterSegment(segs[i + 1])

\* the path ends <Y>/<Q>.json
EndsInYearQuarter(segs) ==
    /\ Len(segs) >= 2
    /\ YearSegment(segs[Len(segs) - 1])
    /\ QuarterFile(segs[Len(segs)])

LastPair(segs) ==
    <<Some(ToInt(segs[Len(segs) - 1])), Some(ToInt(Stem(segs[Len(segs)])))>>

\* C6 as claimed: a path ending <Y>/<Q>.json resolves to (Y, Q) whatever
\* segments precede the pair.
C6_AnyPrefix ==
    (yq_pc = "done" /\ EndsInYearQuarter(Segments(file_path)))
        => yq_result = LastPair(Segments(file_path))

\* C6 amended: a path ending <Y>/<Q>.json resolves to (Y, Q) when no earlier
\* in-range year segment is immediately followed by a quarter segment (the
\* resolver stops at the first adjacent pair).
C6_FirstPair ==
    (/\ yq_pc = "done"
     /\ EndsInYearQuarter(Segments(file_path))
     /\ \A i \in 1..(Len(Segments(file_path)) - 2) : ~PairAt(Segments(file_path), i))
        => yq_result = LastPair(Segments(file_path))

\* a resolved path of four segments ending 2024/3.json behind a year segment
\* that no quarter follows
C6_Witness ==
    /\ yq_pc = "done"
    /\ Len(Segments(file_path)) = 4
    /\ Segments(file_path)[1] = Seg_2019
    /\ Segments(file_path)[2] = Seg_india
    /\ EndsInYearQuarter(Segments(file_path))
    /\ yq_result = <<Some(2024), Some(3)>>

\* C7: a path with no adjacent (year, quarter) pair resolves to (None, None).
C7_BothAbsent ==
    (/\ yq_pc = "done"
     /\ \A i \in 1..(Len(Segments(file_path)) - 1) : ~PairAt(Segments(file_path), i))
        => yq_result = <<None, None>>

\* a resolved path holding a year segment and no quarter after it
C7_Witness ==
    /\ yq_pc = "done"
    /\ \E i \in DOMAIN Segments(file_path) : YearSegment(Segments(file_path)[i])
    /\ \A i \in 1..(Len(Segments(file_path)) - 1) : ~PairAt(Segments(file_path), i)


-----------------------------------------------------------------------------
(* scripts/transform_data.py *)

\* a coercion that fills a failed cell with -1
to_numeric_fill_other(cell) == IF cell = None THEN 0 - 1 ELSE Val(cell)
\* pd.to_numeric(col, errors='coerce').fillna(0) on one cell
to_numeric_fillna(cell) == IF cell = None THEN 0 ELSE Val(cell)

\* Series.str.lower() on one cell: a missing cell stays missing
str_lower(cell) == IF cell = PyNone THEN PyNone ELSE Lower(cell)

\* the columns every transform_* passes through to_numeric(...).fillna(0)
NumericColumns == {"year", "quarter", "transaction_count", "transaction_amount",
                   "registered_users", "app_opens"}

\* pandas' null test on a cell: a filled numeric column holds numbers only,
\* an object column is null where it holds None
IsNull(row, col) == IF col \in NumericColumns THEN FALSE ELSE row[col] = PyNone

\* df.dropna(subset=cols): the rows with no null cell among cols
RECURSIVE dropna(_, _)
dropna(rows, cols) ==
    IF Len(rows) = 0 THEN <<>>
    ELSE (IF \E c \in cols : IsNull(rows[1], c) THEN <<>> ELSE <<rows[1]>>)
         \o dropna(Tail(rows), cols)

\* code-point order of the characters, for sorting group keys
CodePoints == <<"\t", " ", "!", "#", "&", "-", ".", "/">> \o Digits \o UpperChars
              \o <<"\\", "_">> \o LowerChars
Ord(c) == CHOOSE i \in DOMAIN CodePoints : CodePoints[i] = c

\* Python's string order
RECURSIVE StrLess(_, _)
StrLess(a, b) ==
    IF Len(b) = 0 THEN FALSE
    ELSE IF Len(a) = 0 THEN TRUE
    ELSE IF a[1] = b[1] THEN StrLess(Tail(a), Tail(b))
    ELSE Ord(a[1]) < Ord(b[1])

\* the group key of lines 45: (state, year, quarter, transaction_type)
GroupKey(row) == <<row.state, row.year, row.quarter, row.transaction_type>>

\* the order groupby(sort=True) gives the groups
GroupKeyLess(k1, k2) ==
    IF k1[1] # k2[1] THEN StrLess(k1[1], k2[1])
    ELSE IF k1[2] # k2[2] THEN k1[2] < k2[2]
    ELSE IF k1[3] # k2[3] THEN k1[3] < k2[3]
    ELSE StrLess(k1[4], k2[4])

\* an aggregation that keeps the group's last value instead of the sum
RECURSIVE GroupLast(_, _, _)
GroupLast(rows, key, col) ==
    IF Len(rows) = 0 THEN 0
    ELSE IF GroupKey(rows[Len(rows)]) = key THEN rows[Len(rows)][col]
         ELSE GroupLast(SubSeq(rows, 1, Len(rows) - 1), key, col)

\* 'sum' of one column over the rows of one group
RECURSIVE GroupSum(_, _, _)
GroupSum(rows, key, col) ==
    IF Len(rows) = 0 THEN 0
    ELSE (IF GroupKey(rows[1]) = key THEN rows[1][col] ELSE 0)
         + GroupSum(Tail(rows), key, col)

\* a set as a sequence, in some order
RECURSIVE SetToSeq(_)
SetToSeq(S) ==
    IF S = {} THEN <<>>
    ELSE LET x == CHOOSE y \in S : TRUE IN <<x>> \o SetToSeq(S \ {x})

\* df.groupby(groupby_cols).agg({... 'sum'}).reset_index(), lines 46-57
groupby_sum(rows) ==
    LET keys == SortSeq(SetToSeq({GroupKey(rows[i]) : i \in DOMAIN rows}), GroupKeyLess)
    IN [i \in DOMAIN keys |->
           [state |-> keys[i][1], year |-> keys[i][2], quarter |-> keys[i][3],
            transaction_type |-> keys[i][4],
            transaction_count |-> GroupSum(rows, keys[i], "transaction_count"),
            transaction_amount |-> GroupSum(rows, keys[i], "transaction_amount")]]

\* lines 30-42 on one row
clean_aggregated_transaction(row) ==
    [state |-> normalize_state_name(row.state),
     year |-> to_numeric_fillna(row.year),
     quarter |-> to_numeric_fillna(row.quarter),
     transaction_type |-> clean_string(row.transaction_type),
     payment_mode |-> row.payment_mode,
     transaction_count |-> to_numeric_fillna(row.transaction_count),
     transaction_amount |-> to_numeric_fillna(row.transaction_amount)]

\* the transform without its groupby, as the five other transforms are written
transform_aggregated_transactions_ungrouped(df) ==
    IF Len(df) = 0 THEN df
    ELSE dropna([i \in DOMAIN df |-> clean_aggregated_transaction(df[i])],
                {"state", "year", "quarter", "transaction_type"})

transform_aggregated_transactions(df) ==
    IF Len(df) = 0 THEN df
    ELSE dropna(groupby_sum([i \in DOMAIN df |-> clean_aggregated_transaction(df[i])]),
                {"state", "year", "quarter", "transaction_type"})

\* lines 82-90 on one row
clean_aggregated_user(row) ==
    [state |-> normalize_state_name(row.state),
     year |-> to_numeric_fillna(row.year),
     quarter |-> to_numeric_fillna(row.quarter),
     registered_users |-> to_numeric_fillna(row.registered_users),
     app_opens |-> to_numeric_fillna(row.app_opens)]

transform_aggregated_users(df) ==
    IF Len(df) = 0 THEN df
    ELSE dropna([i \in DOMAIN df |-> clean_aggregated_user(df[i])],
                {"state", "year", "quarter"})

\* lines 115-125 on one row
clean_map_transaction(row) ==
    [state |-> normalize_state_name(row.state),
     year |-> to_numeric_fillna(row.year),
     quarter |-> to_numeric_fillna(row.quarter),
     district |-> clean_string(row.district),
     transaction_count |-> to_numeric_fillna(row.transaction_count),
     transaction_amount |-> to_numeric_fillna(row.transaction_amount)]

transform_map_transactions(df) ==
    IF Len(df) = 0 THEN df
    ELSE dropna([i \in DOMAIN df |-> clean_map_transaction(df[i])],
                {"state", "year", "quarter"})

\* lines 150-160 on one row
clean_map_user(row) ==
    [state |-> normalize_state_name(row.state),
     year |-> to_numeric_fillna(row.year),
     quarter |-> to_numeric_fillna(row.quarter),
     district |-> clean_string(row.district),
     registered_users |-> to_numeric_fillna(row.registered_users),
     app_opens |-> to_numeric_fillna(row.app_opens)]

transform_map_users(df) ==
    IF Len(df) = 0 THEN df
    ELSE dropna([i \in DOMAIN df |-> clean_map_user(df[i])],
                {"state", "year", "quarter"})

\* lines 185-199 on one row
clean_top_transaction(row) ==
    [state |-> normalize_state_name(row.state),
     year |-> to_numeric_fillna(row.year),
     quarter |-> to_numeric_fillna(row.quarter),
     entity_type |-> str_lower(row.entity_type),
     entity_name |-> clean_string(row.entity_name),
     transaction_count |-> to_numeric_fillna(row.transaction_count),
     transaction_amount |-> to_numeric_fillna(row.transaction_amount)]

transform_top_transactions(df) ==
    IF Len(df) = 0 THEN df
    ELSE dropna([i \in DOMAIN df |-> clean_top_transaction(df[i])],
                {"state", "year", "quarter", "entity_type", "entity_name"})

\* lines 224-238 on one row
clean_top_user(row) ==
    [state |-> normalize_state_name(row.state),
     year |-> to_numeric_fillna(row.year),
     quarter |-> to_numeric_fillna(row.quarter),
     entity_type |-> str_lower(row.entity_type),
     entity_name |-> clean_string(row.entity_name),
     registered_users |-> to_numeric_fillna(row.registered_users)]

transform_top_users(df) ==
    IF Len(df) = 0 THEN df
    ELSE dropna([i \in DOMAIN df |-> clean_top_user(df[i])],
                {"state", "year", "quarter", "entity_type", "entity_name"})

-----------------------------------------------------------------------------
(* Specification SpecTransform: each transform_* on bounded DataFrames of  *)
(* extracted rows                                                           *)

MaxRows == 2

T_india == <<"i", "n", "d", "i", "a">>
T_INDIA_sp == <<" ", "I", "N", "D", "I", "A">>
T_Recharge == <<"R", "e", "c", "h", "a", "r", "g", "e">>
T_Recharge_x == <<"R", "e", "c", "h", "a", "r", "g", "e", "!">>
T_goa == <<"g", "o", "a">>
T_GOA_sp == <<" ", "G", "O", "A">>
T_n_goa == <<"n", "-", "g", "o", "a">>
T_n_goa_x == <<"n", "-", "g", "o", "a", "!">>
T_goa_x == <<"g", "o", "a", "!">>
T_state == <<"s", "t", "a", "t", "e">>
T_district == <<"d", "i", "s", "t", "r", "i", "c", "t">>
T_pincode == <<"p", "i", "n", "c", "o", "d", "e">>
T_A == <<"A">>
T_560001 == <<"5", "6", "0", "0", "0", "1">>
T_560001_x == <<"5", "6", "0", " ", "0", "0", "1", "!">>

\* rows as the extractors build them (extract_data.py lines 53-61, 96-102,
\* 140-147, 176-183, 301-309, 387-394): year and quarter are the integers
\* extract_year_quarter returned, names and measures come from the document
ExtractedRows(ds) ==
    CASE ds = "aggregated_transactions" ->
           {r \in [state : {T_india, T_INDIA_sp}, year : {Some(2023)},
                   quarter : {Some(1)},
                   transaction_type : {T_Recharge, T_Recharge_x, <<>>},
                   payment_mode : {T_A},
                   transaction_count : {Some(10), Some(5), None},
                   transaction_amount : {Some(100), Some(50)}] :
               r.transaction_amount = Some(50) <=> r.transaction_count = Some(5)}
      [] ds = "aggregated_users" ->
           [state : {T_india, T_INDIA_sp}, year : {Some(2023)}, quarter : {Some(1), Some(2)},
            registered_users : {Some(7), None}, app_opens : {Some(3), Some(4)}]
      [] ds = "map_transactions" ->
           [state : {T_goa, T_GOA_sp, <<>>}, year : {Some(2023)}, quarter : {Some(1)},
            district : {T_goa, T_n_goa, T_n_goa_x},
            transaction_count : {Some(7), None}, transaction_amount : {Some(70)}]
      [] ds = "map_users" ->
           [state : {T_goa, T_GOA_sp, <<>>}, year : {Some(2023)}, quarter : {Some(1)},
            district : {T_goa, T_n_goa, T_n_goa_x},
            registered_users : {Some(7), None}, app_opens : {Some(3)}]
      [] ds = "top_transactions" ->
           [state : {T_india}, year : {Some(2023)}, quarter : {Some(1)},
            entity_type : {T_state, T_district, T_pincode},
            entity_name : {T_goa, T_goa_x, T_560001_x, <<>>},
            transaction_count : {Some(7), None}, transaction_amount : {Some(70)}]
      [] ds = "top_users" ->
           [state : {T_india}, year : {Some(2023)}, quarter : {Some(1)},
            entity_type : {T_state, T_district, T_pincode},
            entity_name : {T_goa, T_goa_x, T_560001_x, <<>>},
            registered_users : {Some(7), None}]

DataFrames(ds) == UNION {[1..n -> ExtractedRows(ds)] : n \in 0..MaxRows}

InitTransform ==
    /\ tf_ds \in DS
    /\ tf_in \in DataFrames(tf_ds)
    /\ tf_out = <<>>
    /\ tf_pc = "call"
    /\ YqIdle
    /\ LdIdle
    /\ RunIdle
    /\ ExIdle
    /\ NmIdle
    /\ ClIdle

TransformAggregatedTransactions ==
    /\ tf_pc = "call" /\ tf_ds = "aggregated_transactions"
    /\ tf_out' = transform_aggregated_transactions(tf_in)
    /\ tf_pc' = "done"
    /\ UNCHANGED <<tf_ds, tf_in, yqVars, ldVars, runVars, exVars, nmVars, clVars>>

TransformAggregatedUsers ==
    /\ tf_pc = "call" /\ tf_ds = "aggregated_users"
    /\ tf_out' = transform_aggregated_users(tf_in)
    /\ tf_pc' = "done"
    /\ UNCHANGED <<tf_ds, tf_in, yqVars, ldVars, runVars, exVars, nmVars, clVars>>

TransformMapTransactions ==
    /\ tf_pc = "call" /\ tf_ds = "map_transactions"
    /\ tf_out' = transform_map_transactions(tf_in)
    /\ tf_pc' = "done"
    /\ UNCHANGED <<tf_ds, tf_in, yqVars, ldVars, runVars, exVars, nmVars, clVars>>

TransformMapUsers ==
    /\ tf_pc = "call" /\ tf_ds = "map_users"
    /\ tf_out' = transform_map_users(tf_in)
    /\ tf_pc' = "done"
    /\ UNCHANGED <<tf_ds, tf_in, yqVars, ldVars, runVars, exVars, nmVars, clVars>>

TransformTopTransactions ==
    /\ tf_pc = "call" /\ tf_ds = "top_transactions"
    /\ tf_out' = transform_top_transactions(tf_in)
    /\ tf_pc' = "done"
    /\ UNCHANGED <<tf_ds, tf_in, yqVars, ldVars, runVars, exVars, nmVars, clVars>>

TransformTopUsers ==
    /\ tf_pc = "call" /\ tf_ds = "top_users"
    /\ tf_out' = transform_top_users(tf_in)
    /\ tf_pc' = "done"
    /\ UNCHANGED <<tf_ds, tf_in, yqVars, ldVars, runVars, exVars, nmVars, clVars>>

NextTransform ==
    \/ TransformAggregatedTransactions
    \/ TransformAggregatedUsers
    \/ TransformMapTransactions
    \/ TransformMapUsers
    \/ TransformTopTransactions
    \/ TransformTopUsers

SpecTransform == InitTransform /\ [][NextTransform]_vars


(* What the claims about the Transformer speak of *)

T_India_n == <<"I", "n", "d", "i", "a">>

\* the natural key of a transformed row of dataset ds
NaturalKey(ds, row) ==
    CASE ds = "aggregated_transactions" ->
           <<row.state, row.year, row.quarter, row.transaction_type>>
      [] ds = "aggregated_users" -> <<row.state, row.year, row.quarter>>
      [] ds \in {"map_transactions", "map_users"} ->
           <<row.state, row.year, row.quarter, row.district>>
      [] ds \in {"top_transactions", "top_users"} ->
           <<row.state, row.year, row.quarter, row.entity_type, row.entity_name>>

\* the string components of the natural key of dataset ds
KeyStrings(ds, row) ==
    CASE ds = "aggregated_transactions" -> {row.state, row.transaction_type}
      [] ds = "aggregated_users" -> {row.state}
      [] ds \in {"map_transactions", "map_users"} -> {row.state}
      [] ds \in {"top_transactions", "top_users"} ->
           {row.state, row.entity_type, row.entity_name}

\* the orderings of a list
Shuffles(rows) ==
    {[i \in DOMAIN rows |-> rows[p[i]]] : p \in Permutations(DOMAIN rows)}

RECURSIVE SumOver(_, _, _)
SumOver(rows, I, col) ==
    IF I = {} THEN 0
    ELSE LET i == CHOOSE j \in I : TRUE
         IN to_numeric_fillna(rows[i][col]) + SumOver(rows, I \ {i}, col)

\* the normalized (state, year, quarter, transaction_type) of an extracted row
NormalizedKey(row) ==
    <<normalize_state_name(row.state), to_numeric_fillna(row.year),
      to_numeric_fillna(row.quarter), clean_string(row.transaction_type)>>

\* C1: the output of every transform_* holds at most one row per natural key.
C1_OneRowPerKey ==
    tf_pc = "done" =>
        \A i, j \in DOMAIN tf_out :
            NaturalKey(tf_ds, tf_out[i]) = NaturalKey(tf_ds, tf_out[j]) => i = j

\* a transform has run on two rows that share a key after normalization
C1_Witness ==
    /\ tf_pc = "done"
    /\ tf_ds # "aggregated_transactions"
    /\ Len(tf_in) = 2
    /\ tf_in[1].state # tf_in[2].state
    /\ Len(tf_out) = 2
    /\ NaturalKey(tf_ds, tf_out[1]) = NaturalKey(tf_ds, tf_out[2])

C9_GroupSums ==
    (tf_pc = "done" /\ tf_ds = "aggregated_transactions") =>
        /\ \A o \in DOMAIN tf_out :
              LET members == {i \in DOMAIN tf_in :
                                 NormalizedKey(tf_in[i]) = NaturalKey(tf_ds, tf_out[o])}
              IN /\ members # {}
                 /\ tf_out[o].transaction_count = SumOver(tf_in, members, "transaction_count")
                 /\ tf_out[o].transaction_amount = SumOver(tf_in, members, "transaction_amount")
        /\ \A i \in DOMAIN tf_in :
              Cardinality({o \in DOMAIN tf_out :
                              NaturalKey(tf_ds, tf_out[o]) = NormalizedKey(tf_in[i])}) = 1

\* the two rows india/2023/1/Recharge with counts 10, 5 and amounts 100, 50
\* have become the one row India/2023/1/Recharge with 15 and 150
C9_Witness ==
    /\ tf_pc = "done" /\ tf_ds = "aggregated_transactions"
    /\ Len(tf_in) = 2
    /\ tf_in[1].state = T_india /\ tf_in[2].state = T_india
    /\ tf_in[1].transaction_type = T_Recharge /\ tf_in[2].transaction_type = T_Recharge
    /\ tf_in[1].transaction_count = Some(10) /\ tf_in[2].transaction_count = Some(5)
    /\ tf_in[1].transaction_amount = Some(100) /\ tf_in[2].transaction_amount = Some(50)
    /\ tf_out = <<[state |-> T_India_n, year |-> 2023, quarter |-> 1,
                   transaction_type |-> T_Recharge,
                   transaction_count |-> 15, transaction_amount |-> 150]>>

\* C10: no output row of a transform_* has an empty or zero-defaulted
\* component of its natural key.
C10_NoMissingKey ==
    tf_pc = "done" =>
        \A o \in DOMAIN tf_out :
            /\ \A k \in KeyStrings(tf_ds, tf_out[o]) : k # <<>> /\ k # PyNone
            /\ tf_out[o].year # 0
            /\ tf_out[o].quarter # 0

\* a transform has run on a row whose state is empty
C10_Witness ==
    /\ tf_pc = "done"
    /\ Len(tf_in) = 1
    /\ tf_in[1].state = <<>>


-----------------------------------------------------------------------------
(* The sink: six tables behind one connection.  A statement writes to the  *)
(* connection's view; commit publishes the view, rollback discards it.      *)

\* the columns of each table's unique key
SinkKey(ds, rec) ==
    CASE ds = "aggregated_transactions" ->
           <<rec.state, rec.year, rec.quarter, rec.transaction_type>>
      [] ds = "aggregated_users" -> <<rec.state, rec.year, rec.quarter>>
      [] ds \in {"map_transactions", "map_users"} ->
           <<rec.state, rec.year, rec.quarter, rec.district>>
      [] ds \in {"top_transactions", "top_users"} ->
           <<rec.state, rec.year, rec.quarter, rec.entity_type, rec.entity_name>>

\* a connection that commits every statement
autocommit_on == TRUE
\* db_connection.py line 34
autocommit == FALSE

\* a rollback that leaves the uncommitted writes in the connection's view
rollback_none(committed, view) == view
\* a rollback that empties the connection's view of every table
rollback_all(committed, view) == EmptyTables
\* connection.rollback(): the view falls back to the committed rows
rollback(committed, view) == committed

\* connection.commit(): the view becomes the committed rows
commit(committed, view) == view

(* database/insert_data.py *)

\* INSERT with no conflict clause into a table that accepts the row
InsertPlain(table, ds, rec) == table \cup {rec}

\* ON DUPLICATE KEY UPDATE m = m + VALUES(m): the measures accumulate
UpsertAdding(table, ds, rec) ==
    IF \E old \in table : SinkKey(ds, old) = SinkKey(ds, rec)
    THEN LET old == CHOOSE o \in table : SinkKey(ds, o) = SinkKey(ds, rec)
         IN (table \ {old}) \cup
            {[c \in DOMAIN rec |->
                IF c \in NumericColumns \ {"year", "quarter"} THEN old[c] + rec[c]
                ELSE old[c]]}
    ELSE table \cup {rec}

\* insert_query of each insert_*: INSERT ... ON DUPLICATE KEY UPDATE
\* <measure> = VALUES(<measure>) for one record
Upsert(table, ds, rec) ==
    IF \E old \in table : SinkKey(ds, old) = SinkKey(ds, rec)
    THEN {IF SinkKey(ds, old) = SinkKey(ds, rec)
          THEN [c \in DOMAIN rec |->
                  IF c \in NumericColumns \ {"year", "quarter"} THEN rec[c] ELSE old[c]]
          ELSE old : old \in table}
    ELSE table \cup {rec}

\* the record tuple each insert_* builds from a row (lines 42-49, 88-94,
\* 133-140, 179-186, 225-233, 271-278): the table's columns, in the
\* DataFrame's values
Record(ds, row) ==
    CASE ds = "aggregated_transactions" ->
           [state |-> row.state, year |-> row.year, quarter |-> row.quarter,
            transaction_type |-> row.transaction_type,
            transaction_count |-> row.transaction_count,
            transaction_amount |-> row.transaction_amount]
      [] ds = "aggregated_users" ->
           [state |-> row.state, year |-> row.year, quarter |-> row.quarter,
            registered_users |-> row.registered_users, app_opens |-> row.app_opens]
      [] ds = "map_transactions" ->
           [state |-> row.state, year |-> row.year, quarter |-> row.quarter,
            district |-> row.district,
            transaction_count |-> row.transaction_count,
            transaction_amount |-> row.transaction_amount]
      [] ds = "map_users" ->
           [state |-> row.state, year |-> row.year, quarter |-> row.quarter,
            district |-> row.district,
            registered_users |-> row.registered_users, app_opens |-> row.app_opens]
      [] ds = "top_transactions" ->
           [state |-> row.state, year |-> row.year, quarter |-> row.quarter,
            entity_type |-> row.entity_type, entity_name |-> row.entity_name,
            transaction_count |-> row.transaction_count,
            transaction_amount |-> row.transaction_amount]
      [] ds = "top_users" ->
           [state |-> row.state, year |-> row.year, quarter |-> row.quarter,
            entity_type |-> row.entity_type, entity_name |-> row.entity_name,
            registered_users |-> row.registered_users]

Records(ds, df) == [i \in DOMAIN df |-> Record(ds, df[i])]

\* entry of insert_<ds>(df, connection): an empty DataFrame returns at once,
\* otherwise the records are built and executemany starts
InsertCall(ds, df) ==
    /\ ld_pc = "idle"
    /\ ld_df' = df
    /\ ld_before' = tables
    /\ ld_calls' = ld_calls + 1
    /\ ld_i' = 0
    /\ IF Len(df) = 0
       THEN ld_pc' = "idle" /\ ld_log' = "empty"
       ELSE ld_pc' = "exec" /\ ld_log' = "none"
    /\ ld_ds' = ds
    /\ UNCHANGED <<tables, txn>>

\* cursor.executemany writes the next record
ExecuteRow ==
    /\ ld_pc = "exec"
    /\ ld_i < Len(ld_df)
    /\ txn' = [txn EXCEPT ![ld_ds] = Upsert(@, ld_ds, Records(ld_ds, ld_df)[ld_i + 1])]
    /\ tables' = IF autocommit THEN txn' ELSE tables
    /\ ld_i' = ld_i + 1
    /\ UNCHANGED <<ld_ds, ld_pc, ld_df, ld_log, ld_calls, ld_before>>
    /\ UNCHANGED <<restVars, error_log>>

\* the sink rejects the next record: executemany raises Error
ExecuteError ==
    /\ ld_pc = "exec"
    /\ ld_i < Len(ld_df)
    /\ ld_pc' = "rollback"
    /\ UNCHANGED <<tables, txn, ld_ds, ld_df, ld_i, ld_log, ld_calls, ld_before>>
    /\ UNCHANGED <<restVars, error_log>>

\* executemany has returned
ExecuteDone ==
    /\ ld_pc = "exec"
    /\ ld_i = Len(ld_df)
    /\ ld_pc' = "commit"
    /\ UNCHANGED <<tables, txn, ld_ds, ld_df, ld_i, ld_log, ld_calls, ld_before>>
    /\ UNCHANGED <<restVars, error_log>>

\* connection.commit() succeeds; the function logs and returns
Commit ==
    /\ ld_pc = "commit"
    /\ tables' = commit(tables, txn)
    /\ ld_pc' = "idle"
    /\ ld_log' = "inserted"
    /\ UNCHANGED <<txn, ld_ds, ld_df, ld_i, ld_calls, ld_before>>
    /\ UNCHANGED <<restVars, error_log>>

\* connection.commit() raises Error
CommitError ==
    /\ ld_pc = "commit"
    /\ ld_pc' = "rollback"
    /\ UNCHANGED <<tables, txn, ld_ds, ld_df, ld_i, ld_log, ld_calls, ld_before>>
    /\ UNCHANGED <<restVars, error_log>>

\* except Error: log, connection.rollback(); finally cursor.close(); return
Rollback ==
    /\ ld_pc = "rollback"
    /\ txn' = rollback(tables, txn)
    /\ ld_pc' = "idle"
    /\ ld_log' = "error"
    /\ UNCHANGED <<tables, ld_ds, ld_df, ld_i, ld_calls, ld_before>>
    /\ error_log' = error_log \cup {ld_ds}
    /\ UNCHANGED restVars



-----------------------------------------------------------------------------
(* Specification SpecLoad: repeated calls of one insert_<dataset> function *)
(* on bounded transformed DataFrames, the sink free to reject any write     *)

MaxBatch == 2
MaxCalls == 2

T_Goa_n == <<"G", "o", "a">>

\* transformed rows: two natural keys per table, two values of a measure
TransformedRows(ds) ==
    CASE ds = "aggregated_transactions" ->
           [state : {T_India_n}, year : {2023}, quarter : {1, 2},
            transaction_type : {T_Recharge},
            transaction_count : {10, 5}, transaction_amount : {100}]
      [] ds = "aggregated_users" ->
           [state : {T_India_n}, year : {2023}, quarter : {1, 2},
            registered_users : {7, 8}, app_opens : {3}]
      [] ds = "map_transactions" ->
           [state : {T_Goa_n}, year : {2023}, quarter : {1},
            district : {T_goa, T_n_goa},
            transaction_count : {7, 8}, transaction_amount : {70}]
      [] ds = "map_users" ->
           [state : {T_Goa_n}, year : {2023}, quarter : {1},
            district : {T_goa, T_n_goa},
            registered_users : {7, 8}, app_opens : {3}]
      [] ds = "top_transactions" ->
           [state : {T_India_n}, year : {2023}, quarter : {1},
            entity_type : {T_state, T_pincode}, entity_name : {T_goa},
            transaction_count : {7, 8}, transaction_amount : {70}]
      [] ds = "top_users" ->
           [state : {T_India_n}, year : {2023}, quarter : {1},
            entity_type : {T_state, T_pincode}, entity_name : {T_goa},
            registered_users : {7, 8}]

Batches(ds) == UNION {[1..n -> TransformedRows(ds)] : n \in 0..MaxBatch}

InitLoad ==
    /\ tables = EmptyTables /\ txn = EmptyTables
    /\ ld_ds \in DS
    /\ ld_pc = "idle" /\ ld_df = <<>> /\ ld_i = 0
    /\ ld_log = "none" /\ ld_calls = 0 /\ ld_before = EmptyTables
    /\ YqIdle
    /\ TfIdle
    /\ RunIdle
    /\ ExIdle
    /\ NmIdle
    /\ ClIdle

InsertAggregatedTransactions ==
    /\ ld_ds = "aggregated_transactions"
    /\ ld_calls < MaxCalls
    /\ \E df \in Batches("aggregated_transactions") : InsertCall("aggregated_transactions", df)
    /\ UNCHANGED <<restVars, error_log>>

InsertAggregatedUsers ==
    /\ ld_ds = "aggregated_users"
    /\ ld_calls < MaxCalls
    /\ \E df \in Batches("aggregated_users") : InsertCall("aggregated_users", df)
    /\ UNCHANGED <<restVars, error_log>>

InsertMapTransactions ==
    /\ ld_ds = "map_transactions"
    /\ ld_calls < MaxCalls
    /\ \E df \in Batches("map_transactions") : InsertCall("map_transactions", df)
    /\ UNCHANGED <<restVars, error_log>>

InsertMapUsers ==
    /\ ld_ds = "map_users"
    /\ ld_calls < MaxCalls
    /\ \E df \in Batches("map_users") : InsertCall("map_users", df)
    /\ UNCHANGED <<restVars, error_log>>

InsertTopTransactions ==
    /\ ld_ds = "top_transactions"
    /\ ld_calls < MaxCalls
    /\ \E df \in Batches("top_transactions") : InsertCall("top_transactions", df)
    /\ UNCHANGED <<restVars, error_log>>

InsertTopUsers ==
    /\ ld_ds = "top_users"
    /\ ld_calls < MaxCalls
    /\ \E df \in Batches("top_users") : InsertCall("top_users", df)
    /\ UNCHANGED <<restVars, error_log>>

NextLoad ==
    \/ InsertAggregatedTransactions
    \/ InsertAggregatedUsers
    \/ InsertMapTransactions
    \/ InsertMapUsers
    \/ InsertTopTransactions
    \/ InsertTopUsers
    \/ ExecuteRow
    \/ ExecuteError
    \/ ExecuteDone
    \/ Commit
    \/ CommitError
    \/ Rollback

SpecLoad == InitLoad /\ [][NextLoad]_vars


(* What the claims about the Loader speak of *)

\* the natural keys of a set of rows
KeysOf(ds, rows) == {SinkKey(ds, r) : r \in rows}

\* no two rows of the table share a natural key
OneRowPerKey(ds, rows) ==
    \A r1, r2 \in rows : SinkKey(ds, r1) = SinkKey(ds, r2) => r1 = r2

\* the batch's last record with the key of record i
LastRecord(recs, ds, i) ==
    recs[CHOOSE j \in DOMAIN recs :
            /\ SinkKey(ds, recs[j]) = SinkKey(ds, recs[i])
            /\ \A k \in DOMAIN recs :
                  SinkKey(ds, recs[k]) = SinkKey(ds, recs[i]) => k <= j]

\* every row of the batch is in the table, with the measures the batch gave
\* its key last
ReflectsBatch(table, ds, recs) ==
    \A i \in DOMAIN recs : LastRecord(recs, ds, i) \in table

\* what one load of the batch leaves in an empty table
LoadedOnce(ds, recs) == {LastRecord(recs, ds, i) : i \in DOMAIN recs}

\* C3: at every moment of an insert_* call and after it, the committed table
\* is as it was before the call or reflects every row of the batch; after a
\* failed write no row of the batch is visible, to other readers or to the
\* connection.
C3_AllOrNothing ==
    ld_ds # "none" =>
        /\ \/ tables[ld_ds] = ld_before[ld_ds]
           \/ ReflectsBatch(tables[ld_ds], ld_ds, Records(ld_ds, ld_df))
        /\ (ld_pc = "idle" /\ ld_log = "error") =>
              (tables = ld_before /\ txn = ld_before)

\* a two-row batch has failed after its first row was written
C3_Witness ==
    /\ ld_pc = "idle" /\ ld_log = "error"
    /\ Len(ld_df) = 2 /\ ld_i = 1
    /\ SinkKey(ld_ds, ld_df[1]) # SinkKey(ld_ds, ld_df[2])
    /\ tables[ld_ds] = {}

\* C4: loading a batch into a table that holds what one load of this batch
\* left in the empty table changes nothing.
C4_Idempotent ==
    (/\ ld_pc = "idle" /\ ld_log = "inserted"
     /\ ld_before[ld_ds] = LoadedOnce(ld_ds, Records(ld_ds, ld_df)))
        => tables[ld_ds] = ld_before[ld_ds]

\* the second load of a batch with two rows of one key and different measures
C4_Witness ==
    /\ ld_pc = "idle" /\ ld_log = "inserted" /\ ld_calls = 2
    /\ Len(ld_df) = 2
    /\ SinkKey(ld_ds, ld_df[1]) = SinkKey(ld_ds, ld_df[2])
    /\ ld_df[1] # ld_df[2]
    /\ ld_before[ld_ds] = LoadedOnce(ld_ds, Records(ld_ds, ld_df))
    /\ tables[ld_ds] = {Record(ld_ds, ld_df[2])}

\* C5: a successful upsert keeps every key the table held, adds the keys of
\* the batch, leaves the rows whose key is not in the batch as they were and
\* the other tables untouched; no table ever holds two rows with one key.
C5_UpsertFrame ==
    /\ \A d \in DS : OneRowPerKey(d, tables[d]) /\ OneRowPerKey(d, txn[d])
    /\ (ld_pc = "idle" /\ ld_log = "inserted") =>
          /\ KeysOf(ld_ds, tables[ld_ds]) =
                KeysOf(ld_ds, ld_before[ld_ds])
                \cup KeysOf(ld_ds, Range(Records(ld_ds, ld_df)))
          /\ \A r \in ld_before[ld_ds] :
                SinkKey(ld_ds, r) \notin KeysOf(ld_ds, Range(Records(ld_ds, ld_df)))
                    => r \in tables[ld_ds]
          /\ ReflectsBatch(tables[ld_ds], ld_ds, Records(ld_ds, ld_df))
          /\ \A d \in DS \ {ld_ds} : tables[d] = ld_before[d]

\* a one-row batch has overwritten the measure of one of two rows the table
\* held
C5_Witness ==
    /\ ld_pc = "idle" /\ ld_log = "inserted"
    /\ Cardinality(ld_before[ld_ds]) = 2
    /\ Len(ld_df) = 1
    /\ Record(ld_ds, ld_df[1]) \notin ld_before[ld_ds]
    /\ SinkKey(ld_ds, ld_df[1]) \in KeysOf(ld_ds, ld_before[ld_ds])
    /\ Cardinality(tables[ld_ds]) = 2


-----------------------------------------------------------------------------
(* main.py and insert_all_data: one run of the pipeline.  Specification    *)
(* SpecRun takes the run from setup to exit, the environment free to fail   *)
(* setup, clone, connect and any sink write.                                *)

DSOrder == <<"aggregated_transactions", "aggregated_users", "map_transactions",
             "map_users", "top_transactions", "top_users">>

\* the record of a transaction category whose name is a number
NumberNamedFrame ==
    <<[state |-> T_india, year |-> Some(2023), quarter |-> Some(1),
       transaction_type |-> PyInt, payment_mode |-> T_A,
       transaction_count |-> Some(10), transaction_amount |-> Some(100)]>>

\* what an extractor may return in a run: nothing, or two records; for the
\* aggregated transactions also the record of a category named by a number
RunFrames(ds) ==
    (IF ds = "aggregated_transactions" THEN {NumberNamedFrame} ELSE {}) \cup
    {<<>>,
     CASE ds = "aggregated_transactions" ->
            <<[state |-> T_india, year |-> Some(2023), quarter |-> Some(1),
               transaction_type |-> T_Recharge, payment_mode |-> T_A,
               transaction_count |-> Some(10), transaction_amount |-> Some(100)],
              [state |-> T_india, year |-> Some(2023), quarter |-> Some(1),
               transaction_type |-> T_Recharge, payment_mode |-> T_A,
               transaction_count |-> Some(5), transaction_amount |-> Some(50)]>>
       [] ds = "aggregated_users" ->
            <<[state |-> T_india, year |-> Some(2023), quarter |-> Some(1),
               registered_users |-> Some(7), app_opens |-> Some(3)],
              [state |-> T_india, year |-> Some(2023), quarter |-> Some(2),
               registered_users |-> Some(7), app_opens |-> Some(4)]>>
       [] ds = "map_transactions" ->
            <<[state |-> T_goa, year |-> Some(2023), quarter |-> Some(1),
               district |-> T_goa,
               transaction_count |-> Some(7), transaction_amount |-> Some(70)],
              [state |-> T_goa, year |-> Some(2023), quarter |-> Some(1),
               district |-> T_n_goa,
               transaction_count |-> Some(7), transaction_amount |-> Some(70)]>>
       [] ds = "map_users" ->
            <<[state |-> T_goa, year |-> Some(2023), quarter |-> Some(1),
               district |-> T_goa,
               registered_users |-> Some(7), app_opens |-> Some(3)],
              [state |-> T_goa, year |-> Some(2023), quarter |-> Some(1),
               district |-> T_n_goa,
               registered_users |-> Some(7), app_opens |-> Some(3)]>>
       [] ds = "top_transactions" ->
            <<[state |-> T_india, year |-> Some(2023), quarter |-> Some(1),
               entity_type |-> T_state, entity_name |-> T_goa,
               transaction_count |-> Some(7), transaction_amount |-> Some(70)],
              [state |-> T_india, year |-> Some(2023), quarter |-> Some(1),
               entity_type |-> T_pincode, entity_name |-> T_goa,
               transaction_count |-> Some(7), transaction_amount |-> Some(70)]>>
       [] ds = "top_users" ->
            <<[state |-> T_india, year |-> Some(2023), quarter |-> Some(1),
               entity_type |-> T_state, entity_name |-> T_goa,
               registered_users |-> Some(7)],
              [state |-> T_india, year |-> Some(2023), quarter |-> Some(1),
               entity_type |-> T_pincode, entity_name |-> T_goa,
               registered_users |-> Some(7)]>>}

\* the transform_* function of a dataset
transform_of(ds, df) ==
    CASE ds = "aggregated_transactions" -> transform_aggregated_transactions(df)
      [] ds = "aggregated_users" -> transform_aggregated_users(df)
      [] ds = "map_transactions" -> transform_map_transactions(df)
      [] ds = "map_users" -> transform_map_users(df)
      [] ds = "top_transactions" -> transform_top_transactions(df)
      [] ds = "top_users" -> transform_top_users(df)

\* transform_all_data raises where a transform_* does: the
\* transaction_type of an aggregated transaction record, item.get('name', '')
\* as the document gives it, is the one column of names that reaches
\* clean_string without a str method having been applied to it
transform_raises(extracted) ==
    \E i \in DOMAIN extracted["aggregated_transactions"] :
        clean_string_raises(extracted["aggregated_transactions"][i].transaction_type)

\* transform_data.py lines 259-287: a dataset with no records gets no entry
transform_all_data(extracted) ==
    [d \in {x \in DS : Len(extracted[x]) > 0} |-> transform_of(d, extracted[d])]

\* a count that looks at one dataset only
FirstRecords(extracted, i) == Len(extracted[DSOrder[i]])
\* sum(len(v) for v in extracted_data.values() if v), main.py line 72
RECURSIVE TotalRecords(_, _)
TotalRecords(extracted, i) ==
    IF i > Len(DSOrder) THEN 0
    ELSE Len(extracted[DSOrder[i]]) + TotalRecords(extracted, i + 1)

\* the except clause of run_etl_pipeline: log the exception e, sys.exit(1)
ExitFailure(e) ==
    /\ run_pc' = "exit"
    /\ failure_log' = e
    /\ exit_code' = Some(1)

(* database/db_connection.py and setup_database.  The environment decides *)
(* whether a step of a function fails; the function's outcome is the        *)
(* exception that leaves it ("none" when it returns) and the state in which *)
(* it leaves the connection it opened.                                      *)

\* create_database_if_not_exists, lines 50-67: connect, execute, close;
\* except Error: log and raise
create_database_if_not_exists(fault) ==
    CASE fault = "connect" -> [raised |-> "Error", connection |-> "unbound"]
      [] fault = "execute" -> [raised |-> "Error", connection |-> "open"]
      [] OTHER -> [raised |-> "none", connection |-> "closed"]

\* execute_sql_file, lines 77-105: connect, read the file, execute the
\* statements, commit, close; except Error: rollback if connected, raise.
\* A failed connect leaves the local connection unassigned for the handler;
\* an exception of open() or read() is no Error and passes the handler by
execute_sql_file(fault) ==
    CASE fault = "connect" -> [raised |-> "UnboundLocalError", connection |-> "unbound"]
      [] fault = "read" -> [raised |-> "OSError", connection |-> "open"]
      [] fault \in {"execute", "commit"} -> [raised |-> "Error", connection |-> "open"]
      [] OTHER -> [raised |-> "none", connection |-> "closed"]

CreateFaults == {"none", "connect", "execute"}
SchemaFaults == {"none", "connect", "read", "execute", "commit"}

\* main.py setup_database, lines 35-47: create the database, then run the
\* schema file when it exists; any exception is logged and raised again
setup_database(create_fault, schema_exists, schema_fault) ==
    LET created == create_database_if_not_exists(create_fault)
        schema == execute_sql_file(schema_fault)
    IN IF created.raised # "none"
       THEN [raised |-> created.raised,
             connections |-> [NoSetupConn EXCEPT
                 !["create_database_if_not_exists"] = created.connection]]
       ELSE IF ~schema_exists
       THEN [raised |-> "none",
             connections |-> [NoSetupConn EXCEPT
                 !["create_database_if_not_exists"] = created.connection]]
       ELSE [raised |-> schema.raised,
             connections |-> [create_database_if_not_exists |-> created.connection,
                              execute_sql_file |-> schema.connection]]

InitRun ==
    /\ run_pc = "setup" /\ run_i = 0
    /\ setup_conn = NoSetupConn
    /\ extracted_data = [d \in DS |-> <<>>]
    /\ transformed_data = [d \in {} |-> <<>>]
    /\ conn = "unbound" /\ error_log = {} /\ success_log = {} /\ exit_code = None
    /\ failure_log = "none"
    /\ YqIdle
    /\ TfIdle
    /\ LdIdle
    /\ ExIdle
    /\ NmIdle
    /\ ClIdle

\* step 1: setup_database() returns
SetupDatabase ==
    /\ run_pc = "setup"
    /\ \E schema_exists \in BOOLEAN :
           setup_conn' = setup_database("none", schema_exists, "none").connections
    /\ run_pc' = "clone"
    /\ UNCHANGED <<yqVars, tfVars, exVars, nmVars, clVars, ldVars, run_i, extracted_data, transformed_data,
                   conn, error_log, success_log, failure_log, exit_code>>

\* step 1: setup_database() raises
SetupDatabaseError ==
    /\ run_pc = "setup"
    /\ \E create_fault \in CreateFaults, schema_fault \in SchemaFaults :
           LET result == setup_database(create_fault, TRUE, schema_fault)
           IN /\ result.raised # "none"
              /\ setup_conn' = result.connections
              /\ ExitFailure(result.raised)
    /\ UNCHANGED <<yqVars, tfVars, exVars, nmVars, clVars, ldVars, run_i, extracted_data, transformed_data,
                   conn, error_log, success_log>>

\* step 2: clone_repository() returns True
CloneRepository ==
    /\ run_pc = "clone"
    /\ run_pc' = "extract"
    /\ UNCHANGED <<yqVars, tfVars, exVars, nmVars, clVars, ldVars, run_i, extracted_data, transformed_data,
                   conn, setup_conn, error_log, success_log, failure_log, exit_code>>

\* a run that logs the failed clone and goes on to the extraction
CloneRepositoryIgnored ==
    /\ run_pc = "clone"
    /\ run_pc' = "extract"
    /\ failure_log' = "Repository cloning failed!"
    /\ UNCHANGED <<yqVars, tfVars, exVars, nmVars, clVars, ldVars, run_i, extracted_data, transformed_data,
                   conn, setup_conn, error_log, success_log, exit_code>>

\* step 2: clone_repository() returns False
CloneRepositoryFailed ==
    /\ run_pc = "clone"
    /\ ExitFailure("Repository cloning failed!")
    /\ UNCHANGED <<yqVars, tfVars, exVars, nmVars, clVars, ldVars, run_i, extracted_data, transformed_data,
                   conn, setup_conn, error_log, success_log>>

\* step 3: extract_all_data() returns the six lists
ExtractAllData ==
    /\ run_pc = "extract"
    /\ extracted_data' \in [DS -> UNION {RunFrames(d) : d \in DS}]
    /\ \A d \in DS : extracted_data'[d] \in RunFrames(d)
    /\ run_pc' = "check"
    /\ UNCHANGED <<yqVars, tfVars, exVars, nmVars, clVars, ldVars, run_i, transformed_data, conn, setup_conn, error_log,
                   success_log, failure_log, exit_code>>

\* step 3: an extractor raises (data.get, item.get or .lower() on a value
\* of another type) and extract_all_data with it
ExtractAllDataError ==
    /\ run_pc = "extract"
    /\ ExitFailure("AttributeError")
    /\ UNCHANGED <<yqVars, tfVars, exVars, nmVars, clVars, ldVars, run_i, extracted_data, transformed_data,
                   conn, setup_conn, error_log, success_log>>

\* main.py lines 72-73: no record at all fails the run
NoDataExtracted ==
    /\ run_pc = "check"
    /\ TotalRecords(extracted_data, 1) = 0
    /\ ExitFailure("No data extracted from repository!")
    /\ UNCHANGED <<yqVars, tfVars, exVars, nmVars, clVars, ldVars, run_i, extracted_data, transformed_data,
                   conn, setup_conn, error_log, success_log>>

\* step 4: transform_all_data raises
TransformAllDataError ==
    /\ run_pc = "check"
    /\ TotalRecords(extracted_data, 1) # 0
    /\ transform_raises(extracted_data)
    /\ ExitFailure("AttributeError")
    /\ UNCHANGED <<yqVars, tfVars, exVars, nmVars, clVars, ldVars, run_i, extracted_data, transformed_data,
                   conn, setup_conn, error_log, success_log>>

\* step 4: transform_all_data
TransformAllData ==
    /\ run_pc = "check"
    /\ TotalRecords(extracted_data, 1) # 0
    /\ ~transform_raises(extracted_data)
    /\ transformed_data' = transform_all_data(extracted_data)
    /\ run_pc' = "connect"
    /\ UNCHANGED <<yqVars, tfVars, exVars, nmVars, clVars, ldVars, run_i, extracted_data, conn, setup_conn, error_log,
                   success_log, failure_log, exit_code>>

\* insert_all_data: get_db_connection() returns an open connection
GetDbConnection ==
    /\ run_pc = "connect"
    /\ conn' = "open"
    /\ UNCHANGED setup_conn
    /\ run_pc' = "insert"
    /\ run_i' = 1
    /\ UNCHANGED <<yqVars, tfVars, exVars, nmVars, clVars, ldVars, extracted_data, transformed_data,
                   error_log, success_log, failure_log, exit_code>>

\* get_db_connection() raises: insert_all_data re-raises, its finally clause
\* reads the unassigned local connection, the run fails
GetDbConnectionError ==
    /\ run_pc = "connect"
    /\ ExitFailure("UnboundLocalError")
    /\ UNCHANGED <<yqVars, tfVars, exVars, nmVars, clVars, ldVars, run_i, extracted_data, transformed_data,
                   conn, setup_conn, error_log, success_log>>

\* insert_all_data, the call of insert_aggregated_transactions when the dataset is present
AllDataAggregatedTransactions ==
    /\ run_pc = "insert" /\ run_i = 1 /\ ld_pc = "idle"
    /\ IF "aggregated_transactions" \in DOMAIN transformed_data
       THEN InsertCall("aggregated_transactions", transformed_data["aggregated_transactions"])
       ELSE UNCHANGED ldVars
    /\ run_i' = run_i + 1
    /\ UNCHANGED <<yqVars, tfVars, exVars, nmVars, clVars, run_pc, extracted_data, transformed_data, conn, setup_conn,
                   error_log, success_log, failure_log, exit_code>>

\* insert_all_data, the call of insert_aggregated_users when the dataset is present
AllDataAggregatedUsers ==
    /\ run_pc = "insert" /\ run_i = 2 /\ ld_pc = "idle"
    /\ IF "aggregated_users" \in DOMAIN transformed_data
       THEN InsertCall("aggregated_users", transformed_data["aggregated_users"])
       ELSE UNCHANGED ldVars
    /\ run_i' = run_i + 1
    /\ UNCHANGED <<yqVars, tfVars, exVars, nmVars, clVars, run_pc, extracted_data, transformed_data, conn, setup_conn,
                   error_log, success_log, failure_log, exit_code>>

\* insert_all_data, the call of insert_map_transactions when the dataset is present
AllDataMapTransactions ==
    /\ run_pc = "insert" /\ run_i = 3 /\ ld_pc = "idle"
    /\ IF "map_transactions" \in DOMAIN transformed_data
       THEN InsertCall("map_transactions", transformed_data["map_transactions"])
       ELSE UNCHANGED ldVars
    /\ run_i' = run_i + 1
    /\ UNCHANGED <<yqVars, tfVars, exVars, nmVars, clVars, run_pc, extracted_data, transformed_data, conn, setup_conn,
                   error_log, success_log, failure_log, exit_code>>

\* insert_all_data, the call of insert_map_users when the dataset is present
AllDataMapUsers ==
    /\ run_pc = "insert" /\ run_i = 4 /\ ld_pc = "idle"
    /\ IF "map_users" \in DOMAIN transformed_data
       THEN InsertCall("map_users", transformed_data["map_users"])
       ELSE UNCHANGED ldVars
    /\ run_i' = run_i + 1
    /\ UNCHANGED <<yqVars, tfVars, exVars, nmVars, clVars, run_pc, extracted_data, transformed_data, conn, setup_conn,
                   error_log, success_log, failure_log, exit_code>>

\* insert_all_data, the call of insert_top_transactions when the dataset is present
AllDataTopTransactions ==
    /\ run_pc = "insert" /\ run_i = 5 /\ ld_pc = "idle"
    /\ IF "top_transactions" \in DOMAIN transformed_data
       THEN InsertCall("top_transactions", transformed_data["top_transactions"])
       ELSE UNCHANGED ldVars
    /\ run_i' = run_i + 1
    /\ UNCHANGED <<yqVars, tfVars, exVars, nmVars, clVars, run_pc, extracted_data, transformed_data, conn, setup_conn,
                   error_log, success_log, failure_log, exit_code>>

\* insert_all_data, the call of insert_top_users when the dataset is present
AllDataTopUsers ==
    /\ run_pc = "insert" /\ run_i = 6 /\ ld_pc = "idle"
    /\ IF "top_users" \in DOMAIN transformed_data
       THEN InsertCall("top_users", transformed_data["top_users"])
       ELSE UNCHANGED ldVars
    /\ run_i' = run_i + 1
    /\ UNCHANGED <<yqVars, tfVars, exVars, nmVars, clVars, run_pc, extracted_data, transformed_data, conn, setup_conn,
                   error_log, success_log, failure_log, exit_code>>

\* insert_all_data lines 321-329: the completion message, then the finally
\* clause closes the connection
InsertAllDataDone ==
    /\ run_pc = "insert" /\ run_i = Len(DSOrder) + 1 /\ ld_pc = "idle"
    /\ success_log' = success_log \cup {"Database insertion completed successfully!"}
    /\ conn' = "closed"
    /\ UNCHANGED setup_conn
    /\ run_pc' = "summary"
    /\ UNCHANGED <<yqVars, tfVars, exVars, nmVars, clVars, ldVars, run_i, extracted_data, transformed_data,
                   error_log, failure_log, exit_code>>

\* main.py lines 83-95: the pipeline reports completion and returns
PipelineCompleted ==
    /\ run_pc = "summary"
    /\ success_log' = success_log \cup {"ETL Pipeline Completed Successfully!"}
    /\ run_pc' = "exit"
    /\ exit_code' = Some(0)
    /\ UNCHANGED <<yqVars, tfVars, exVars, nmVars, clVars, ldVars, run_i, extracted_data,
                   transformed_data, conn, setup_conn, error_log, failure_log>>

NextRun ==
    \/ SetupDatabase
    \/ SetupDatabaseError
    \/ CloneRepository
    \/ CloneRepositoryFailed
    \/ ExtractAllData
    \/ ExtractAllDataError
    \/ NoDataExtracted
    \/ TransformAllData
    \/ TransformAllDataError
    \/ GetDbConnection
    \/ GetDbConnectionError
    \/ AllDataAggregatedTransactions
    \/ AllDataAggregatedUsers
    \/ AllDataMapTransactions
    \/ AllDataMapUsers
    \/ AllDataTopTransactions
    \/ AllDataTopUsers
    \/ ExecuteRow
    \/ ExecuteError
    \/ ExecuteDone
    \/ Commit
    \/ CommitError
    \/ Rollback
    \/ InsertAllDataDone
    \/ PipelineCompleted

SpecRun == InitRun /\ [][NextRun]_vars

\* C2: a run in which the sink rejected a dataset's batch write ends with a
\* non-zero exit status and reports no successful completion.
C2_FailurePropagates ==
    (run_pc = "exit" /\ error_log # {}) =>
        (exit_code # Some(0) /\ success_log = {})

\* a run has ended after the sink rejected a batch write and the batch was
\* rolled back
C2_Witness ==
    /\ run_pc = "exit"
    /\ error_log # {}
    /\ \A d \in error_log : tables[d] = {}

-----------------------------------------------------------------------------
(* scripts/extract_data.py.  A file of the cloned repository is its path   *)
(* below a dataset's base path and its content.  The content is            *)
(*   kind "invalid"  bytes json.load cannot parse,                          *)
(*   kind "list"     a JSON document whose top level is an array,           *)
(*   kind "object"   a JSON object with its keys success and data, each     *)
(*                   None when the key is absent.                           *)
(* Inside data, a list is a sequence, a key that may be absent is None or   *)
(* Some(value), a JSON null in a list is None.  Names are strings.  A       *)
(* bucket of a top-N payload is None when its key is absent, Some(None)     *)
(* when it is null, Some(Some(list)) otherwise.                             *)

P_data == <<"d", "a", "t", "a">>
P_raw == <<"r", "a", "w">>
P_pulse == <<"p", "u", "l", "s", "e">>
P_aggregated == <<"a", "g", "g", "r", "e", "g", "a", "t", "e", "d">>
P_transaction == <<"t", "r", "a", "n", "s", "a", "c", "t", "i", "o", "n">>
P_country == <<"c", "o", "u", "n", "t", "r", "y">>
P_user == <<"u", "s", "e", "r">>
P_map == <<"m", "a", "p">>
P_hover == <<"h", "o", "v", "e", "r">>
P_top == <<"t", "o", "p">>

\* REPO_DATA_DIR and the base_path of each extractor, as path segments
BasePath(ds) ==
    CASE ds = "aggregated_transactions" ->
           <<P_data, P_raw, P_pulse, P_data, P_aggregated, P_transaction, P_country, Seg_india>>
      [] ds = "aggregated_users" ->
           <<P_data, P_raw, P_pulse, P_data, P_aggregated, P_user, P_country, Seg_india>>
      [] ds = "map_transactions" ->
           <<P_data, P_raw, P_pulse, P_data, P_map, P_transaction, P_hover, P_country, Seg_india>>
      [] ds = "map_users" ->
           <<P_data, P_raw, P_pulse, P_data, P_map, P_user, P_hover, P_country, Seg_india>>
      [] ds = "top_transactions" ->
           <<P_data, P_raw, P_pulse, P_data, P_top, P_transaction, P_country, Seg_india>>
      [] ds = "top_users" ->
           <<P_data, P_raw, P_pulse, P_data, P_top, P_user, P_country, Seg_india>>

\* dict.get(key, default): the default when the key is absent
Get(field, default) == IF field = None THEN default ELSE Val(field)

\* the {} load_json_file returns for a file it cannot load
EmptyDict == [kind |-> "object", success |-> None, data |-> None]

\* helpers.py load_json_file: json.load, and {} on any exception
load_json_file(file) ==
    IF file.content.kind = "invalid" THEN EmptyDict ELSE file.content

\* os.path.join(root, file) of a file found below the dataset's base path
FilePath(ds, file) == JoinPath(BasePath(ds) \o file.rel, "/")

\* helpers.py find_json_files: the files below a directory of the base
\* path, at any depth
find_json_files(files, dir) ==
    SelectSeq(files, LAMBDA f : /\ Len(f.rel) > Len(dir)
                                /\ SubSeq(f.rel, 1, Len(dir)) = dir)

\* an extractor that never skips a file for its path
NoYearQuarterNever(yq) == FALSE
\* not year or not quarter
NoYearQuarter(yq) == yq[1] = None \/ yq[2] = None

\* an extractor that looks at the payload only
SkipDocumentNoPayload(data) == data.data = None
\* not data.get('success') or not data.get('data')
SkipDocument(data) == ~Get(data.success, FALSE) \/ data.data = None

\* the outcome of an extractor: an exception, or the list it returns
Raised == [raised |-> TRUE, records |-> <<>>]
Returned(records) == [raised |-> FALSE, records |-> records]

\* the records of nested loops, in order
RECURSIVE Concat(_)
Concat(seqs) == IF Len(seqs) = 0 THEN <<>> ELSE seqs[1] \o Concat(Tail(seqs))

\* extract_aggregated_transactions lines 46-61
records_aggregated_transactions(payload, year, quarter) ==
    Concat([i \in DOMAIN payload.transactionData |->
        LET item == payload.transactionData[i]
        IN [j \in DOMAIN item.paymentInstruments |->
               LET payment_mode == item.paymentInstruments[j]
               IN [state |-> T_india, year |-> year, quarter |-> quarter,
                   transaction_type |-> Get(item.name, <<>>),
                   payment_mode |-> Get(payment_mode.type, <<>>),
                   transaction_count |-> Get(payment_mode.count, Some(0)),
                   transaction_amount |-> Get(payment_mode.amount, Some(0))]]])

\* extract_aggregated_users lines 94-102
records_aggregated_users(payload, year, quarter) ==
    <<[state |-> T_india, year |-> year, quarter |-> quarter,
       registered_users |-> Get(payload.aggregated.registeredUsers, Some(0)),
       app_opens |-> Get(payload.aggregated.appOpens, Some(0))]>>

\* extract_map_transactions lines 133-147 (state_dir = None, the country
\* pass) and lines 169-183 (the pass over one state directory)
records_map_transactions(payload, state_dir, year, quarter) ==
    Concat([i \in DOMAIN payload.hoverDataList |->
        LET item == payload.hoverDataList[i]
            name == Lower(Get(item.name, <<>>))
        IN [j \in DOMAIN item.metric |->
               [state |-> IF state_dir = None THEN name ELSE Lower(Val(state_dir)),
                year |-> year, quarter |-> quarter,
                district |-> name,
                transaction_count |-> Get(item.metric[j].count, Some(0)),
                transaction_amount |-> Get(item.metric[j].amount, Some(0))]]])

\* extract_map_users lines 214-224 (state_dir = None) and lines 246-256
records_map_users(payload, state_dir, year, quarter) ==
    [i \in DOMAIN payload.hoverData |->
        LET item == payload.hoverData[i]
        IN [state |-> IF state_dir = None THEN Lower(item.name)
                      ELSE Lower(Val(state_dir)),
            year |-> year, quarter |-> quarter,
            district |-> Lower(item.name),
            registered_users |-> Get(item.registeredUsers, Some(0)),
            app_opens |-> Get(item.appOpens, Some(0))]]

\* data_obj.get(<bucket>, []) or []
Bucket(field) ==
    LET value == Get(field, Some(<<>>))
    IN IF value = None THEN <<>> ELSE Val(value)

\* for item in <list>: if not item: continue
Items(list) == SelectSeq(list, LAMBDA item : item # None)

\* extract_top_transactions: one of the three loops of lines 293-345;
\* state and district names are lower-cased, a pincode is str(entity_name)
top_transaction_entities(list, entity_type, year, quarter) ==
    LET items == Items(list)
    IN [i \in DOMAIN items |->
           LET item == Val(items[i])
               entity_name == Get(item.entityName, <<>>)
           IN [state |-> T_india, year |-> year, quarter |-> quarter,
               entity_type |-> entity_type,
               entity_name |-> IF entity_type = T_pincode THEN entity_name
                               ELSE Lower(entity_name),
               transaction_count |-> Get(item.metric.count, Some(0)),
               transaction_amount |-> Get(item.metric.amount, Some(0))]]

\* an extractor that stops at the first bucket that is absent, null or empty
records_top_transactions_chained(payload, year, quarter) ==
    IF Bucket(payload.states) = <<>> THEN <<>>
    ELSE top_transaction_entities(Bucket(payload.states), T_state, year, quarter)
         \o (IF Bucket(payload.districts) = <<>> THEN <<>>
             ELSE top_transaction_entities(Bucket(payload.districts), T_district, year, quarter)
                  \o top_transaction_entities(Bucket(payload.pincodes), T_pincode, year, quarter))
\* extract_top_transactions lines 289-345
records_top_transactions(payload, year, quarter) ==
    top_transaction_entities(Bucket(payload.states), T_state, year, quarter)
    \o top_transaction_entities(Bucket(payload.districts), T_district, year, quarter)
    \o top_transaction_entities(Bucket(payload.pincodes), T_pincode, year, quarter)

\* extract_top_users: one of the three loops of lines 382-422
top_user_entities(list, entity_type, year, quarter) ==
    LET items == Items(list)
    IN [i \in DOMAIN items |->
           LET item == Val(items[i])
               name == Get(item.name, <<>>)
           IN [state |-> T_india, year |-> year, quarter |-> quarter,
               entity_type |-> entity_type,
               entity_name |-> IF entity_type = T_pincode THEN name ELSE Lower(name),
               registered_users |-> Get(item.registeredUsers, Some(0))]]

\* extract_top_users lines 378-422
records_top_users(payload, year, quarter) ==
    top_user_entities(Bucket(payload.states), T_state, year, quarter)
    \o top_user_entities(Bucket(payload.districts), T_district, year, quarter)
    \o top_user_entities(Bucket(payload.pincodes), T_pincode, year, quarter)

\* the body of an extractor's file loop once the document is accepted
DocRecords(ds, payload, state_dir, year, quarter) ==
    CASE ds = "aggregated_transactions" ->
           records_aggregated_transactions(payload, year, quarter)
      [] ds = "aggregated_users" -> records_aggregated_users(payload, year, quarter)
      [] ds = "map_transactions" ->
           records_map_transactions(payload, state_dir, year, quarter)
      [] ds = "map_users" -> records_map_users(payload, state_dir, year, quarter)
      [] ds = "top_transactions" -> records_top_transactions(payload, year, quarter)
      [] ds = "top_users" -> records_top_users(payload, year, quarter)

\* the loop "for file_path in json_files" every extractor is written
\* around (lines 36-61, 84-102, 123-147, 159-183, 204-224, 236-256, 279-345,
\* 368-422): a path without year or quarter is passed over; the document is
\* loaded; .get on a document that is not a dict raises AttributeError; an
\* unsuccessful or empty document is passed over; the rest gives records
RECURSIVE ExtractFiles(_, _, _)
ExtractFiles(ds, json_files, state_dir) ==
    IF Len(json_files) = 0 THEN Returned(<<>>)
    ELSE LET file == json_files[1]
             yq == extract_year_quarter(FilePath(ds, file))
             data == load_json_file(file)
             rest == ExtractFiles(ds, Tail(json_files), state_dir)
         IN IF NoYearQuarter(yq) THEN rest
            ELSE IF data.kind # "object" THEN Raised
            ELSE IF SkipDocument(data) THEN rest
            ELSE IF rest.raised THEN Raised
            ELSE Returned(DocRecords(ds, Val(data.data), state_dir, yq[1], yq[2])
                          \o rest.records)

\* os.listdir(state_base), directories only: the state directories that
\* hold a file
StateDirs(files) ==
    SetToSeq({files[i].rel[2] :
                 i \in {k \in DOMAIN files : /\ Len(files[k].rel) >= 3
                                             /\ files[k].rel[1] = T_state}})

\* "for state_dir in os.listdir(state_base)" of the two map extractors
RECURSIVE ExtractStateDirs(_, _, _)
ExtractStateDirs(ds, files, state_dirs) ==
    IF Len(state_dirs) = 0 THEN Returned(<<>>)
    ELSE LET first == ExtractFiles(ds, find_json_files(files, <<T_state, state_dirs[1]>>),
                                   Some(state_dirs[1]))
             rest == ExtractStateDirs(ds, files, Tail(state_dirs))
         IN IF first.raised \/ rest.raised THEN Raised
            ELSE Returned(first.records \o rest.records)

\* the two passes of a map extractor: the base path, then each state directory
ExtractMap(ds, files) ==
    LET country == ExtractFiles(ds, find_json_files(files, <<>>), None)
        states == ExtractStateDirs(ds, files, StateDirs(files))
    IN IF country.raised \/ states.raised THEN Raised
       ELSE Returned(country.records \o states.records)

extract_aggregated_transactions(files) ==
    ExtractFiles("aggregated_transactions", find_json_files(files, <<>>), None)

extract_aggregated_users(files) ==
    ExtractFiles("aggregated_users", find_json_files(files, <<>>), None)

extract_map_transactions(files) == ExtractMap("map_transactions", files)

extract_map_users(files) == ExtractMap("map_users", files)

extract_top_transactions(files) ==
    ExtractFiles("top_transactions", find_json_files(files, <<>>), None)

extract_top_users(files) ==
    ExtractFiles("top_users", find_json_files(files, <<>>), None)

\* the extractor of a dataset
extract_of(ds, files) ==
    CASE ds = "aggregated_transactions" -> extract_aggregated_transactions(files)
      [] ds = "aggregated_users" -> extract_aggregated_users(files)
      [] ds = "map_transactions" -> extract_map_transactions(files)
      [] ds = "map_users" -> extract_map_users(files)
      [] ds = "top_transactions" -> extract_top_transactions(files)
      [] ds = "top_users" -> extract_top_users(files)

-----------------------------------------------------------------------------
(* Specification SpecPipeline: one run of run_etl_pipeline from the        *)
(* extraction on, over a bounded cloned repository in which one dataset's   *)
(* base path holds files: extract_all_data, transform_all_data,             *)
(* insert_all_data, the sink free to reject any write.                      *)

MaxFiles == 2

Seg_1json == <<"1", ".", "j", "s", "o", "n">>

\* paths below a base path: no year, year and quarter, a year without a
\* quarter, and two files of a state directory, one of them for the year
\* and quarter of the country-scope file
RelPaths == << <<Seg_xjson>>,
               <<Seg_2019, Seg_3json>>,
               <<Seg_2019, Seg_xjson>>,
               <<T_state, T_goa, Seg_2024, Seg_1json>>,
               <<T_state, T_goa, Seg_2019, Seg_3json>> >>

\* a data payload with named entries
NamedPayload(ds) ==
    CASE ds = "aggregated_transactions" ->
           [transactionData |->
              <<[name |-> Some(T_Recharge),
                 paymentInstruments |->
                    <<[type |-> Some(T_A), count |-> Some(Some(10)),
                       amount |-> Some(Some(100))]>>]>>]
      [] ds = "aggregated_users" ->
           [aggregated |-> [registeredUsers |-> Some(Some(7)),
                            appOpens |-> Some(Some(3))]]
      [] ds = "map_transactions" ->
           [hoverDataList |->
              <<[name |-> Some(T_Goa_n),
                 metric |-> <<[count |-> Some(Some(7)), amount |-> Some(Some(70))]>>]>>]
      [] ds = "map_users" ->
           [hoverData |->
              <<[name |-> T_Goa_n, registeredUsers |-> Some(Some(7)),
                 appOpens |-> Some(Some(3))]>>]
      [] ds = "top_transactions" ->
           [states |->
              Some(Some(<<Some([entityName |-> Some(T_Goa_n),
                      metric |-> [count |-> Some(Some(7)), amount |-> Some(Some(70))]]),
                None>>)),
            districts |-> Some(Some(<<>>)),
            pincodes |->
              Some(Some(<<Some([entityName |-> Some(T_560001),
                      metric |-> [count |-> Some(Some(7)), amount |-> Some(Some(70))]])>>))]
      [] ds = "top_users" ->
           [states |->
              Some(Some(<<Some([name |-> Some(T_Goa_n), registeredUsers |-> Some(Some(7))]),
                None>>)),
            districts |-> Some(Some(<<>>)),
            pincodes |->
              Some(Some(<<Some([name |-> Some(T_560001), registeredUsers |-> Some(Some(7))])>>))]

\* a data payload whose entry has no name (an empty one where the name is
\* a key of the document), or no measure where the dataset has no names
UnnamedPayload(ds) ==
    CASE ds = "aggregated_transactions" ->
           [transactionData |->
              <<[name |-> None,
                 paymentInstruments |->
                    <<[type |-> Some(T_A), count |-> Some(Some(10)),
                       amount |-> Some(Some(100))]>>]>>]
      [] ds = "aggregated_users" ->
           [aggregated |-> [registeredUsers |-> None, appOpens |-> Some(Some(3))]]
      [] ds = "map_transactions" ->
           [hoverDataList |->
              <<[name |-> None,
                 metric |-> <<[count |-> Some(Some(7)), amount |-> Some(Some(70))]>>]>>]
      [] ds = "map_users" ->
           [hoverData |->
              <<[name |-> <<>>, registeredUsers |-> Some(Some(7)),
                 appOpens |-> Some(Some(3))]>>]
      [] ds = "top_transactions" ->
           [states |->
              Some(Some(<<Some([entityName |-> None,
                      metric |-> [count |-> Some(Some(7)), amount |-> Some(Some(70))]])>>)),
            districts |-> Some(Some(<<>>)),
            pincodes |-> Some(Some(<<>>))]
      [] ds = "top_users" ->
           [states |-> Some(Some(<<Some([name |-> None, registeredUsers |-> Some(Some(7))])>>)),
            districts |-> Some(Some(<<>>)),
            pincodes |-> Some(Some(<<>>))]

TopDatasets == {"top_transactions", "top_users"}

\* one entity of a top-N bucket
TopItem(ds, name) ==
    IF ds = "top_transactions"
    THEN Some([entityName |-> Some(name),
               metric |-> [count |-> Some(Some(7)), amount |-> Some(Some(70))]])
    ELSE Some([name |-> Some(name), registeredUsers |-> Some(Some(7))])

\* top-N payloads with buckets that are absent or null: pincodes only, and
\* districts only
SparsePayloads(ds) ==
    IF ds \in TopDatasets
    THEN {[states |-> None, districts |-> Some(None),
           pincodes |-> Some(Some(<<TopItem(ds, T_560001)>>))],
          [states |-> Some(None), districts |-> Some(Some(<<TopItem(ds, T_Goa_n)>>)),
           pincodes |-> None]}
    ELSE {}

\* a successful document with named entries
GoodContent(ds) ==
    [kind |-> "object", success |-> Some(TRUE), data |-> Some(NamedPayload(ds))]

\* a successful document whose entries have no name or no measure
UnnamedContent(ds) ==
    [kind |-> "object", success |-> Some(TRUE), data |-> Some(UnnamedPayload(ds))]

\* file contents: unparsable, a top-level array, and objects with success
\* true, false or absent, with and without a data payload, with all buckets
\* or some
Contents(ds) ==
    {[kind |-> "invalid", success |-> None, data |-> None],
     [kind |-> "list", success |-> None, data |-> None],
     GoodContent(ds),
     [kind |-> "object", success |-> Some(FALSE), data |-> Some(NamedPayload(ds))],
     [kind |-> "object", success |-> None, data |-> Some(NamedPayload(ds))],
     [kind |-> "object", success |-> Some(TRUE), data |-> None],
     UnnamedContent(ds)}
    \cup {[kind |-> "object", success |-> Some(TRUE), data |-> Some(payload)] :
             payload \in SparsePayloads(ds)}

\* any content at the country-scope path for 2019/3; a good document, one
\* with other values or a top-level array at the per-state path for 2019/3;
\* a good document at the other paths
Files(ds) ==
    {[rel |-> RelPaths[2], content |-> c] : c \in Contents(ds)}
    \cup {[rel |-> RelPaths[5], content |-> c] :
             c \in {GoodContent(ds), UnnamedContent(ds),
                    [kind |-> "list", success |-> None, data |-> None]}}
    \cup {[rel |-> RelPaths[p], content |-> GoodContent(ds)] : p \in {1, 3, 4}}

PathIndex(rel) == CHOOSE p \in DOMAIN RelPaths : RelPaths[p] = rel

\* the list is one that os.walk can give, top down: distinct paths, the
\* files of the directory itself first, the files below one subdirectory
\* together; the order of the subdirectories and of the files of one
\* directory is the file system's
WalkOrder(files) ==
    /\ \A i, j \in DOMAIN files : i # j => files[i].rel # files[j].rel
    /\ \A i, j \in DOMAIN files :
           (i < j /\ Len(files[j].rel) = 1) => Len(files[i].rel) = 1
    /\ \A i, j, k \in DOMAIN files :
           (i < j /\ j < k /\ files[i].rel[1] = files[k].rel[1])
               => files[j].rel[1] = files[i].rel[1]

\* the files below a base path, as find_json_files may list them
Repos(ds) ==
    {files \in UNION {[1..n -> Files(ds)] : n \in 0..MaxFiles} : WalkOrder(files)}

InitPipeline ==
    /\ \E ds \in DS : \E files \in Repos(ds) :
           repo = [d \in DS |-> IF d = ds THEN files ELSE <<>>]
    /\ ex_i = 1
    /\ run_pc = "extract" /\ run_i = 0
    /\ setup_conn = setup_database("none", TRUE, "none").connections
    /\ extracted_data = [d \in DS |-> <<>>]
    /\ transformed_data = [d \in {} |-> <<>>]
    /\ conn = "unbound" /\ error_log = {} /\ success_log = {} /\ exit_code = None
    /\ failure_log = "none"
    /\ YqIdle
    /\ TfIdle
    /\ LdIdle
    /\ NmIdle
    /\ ClIdle

\* one entry of the dict extract_all_data builds (lines 440-447): the
\* extractor returns its list, or its exception ends the run
ExtractCall(ds, result) ==
    /\ run_pc = "extract"
    /\ DSOrder[ex_i] = ds
    /\ IF result.raised
       THEN /\ ExitFailure("AttributeError")
            /\ UNCHANGED <<extracted_data, ex_i>>
       ELSE /\ extracted_data' = [extracted_data EXCEPT ![ds] = result.records]
            /\ ex_i' = ex_i + 1
            /\ UNCHANGED <<run_pc, failure_log, exit_code>>
    /\ UNCHANGED <<yqVars, tfVars, ldVars, nmVars, clVars, repo, run_i, transformed_data,
                   conn, setup_conn, error_log, success_log>>

ExtractAggregatedTransactions ==
    /\ ex_i = 1
    /\ ExtractCall("aggregated_transactions",
                   extract_aggregated_transactions(repo["aggregated_transactions"]))

ExtractAggregatedUsers ==
    /\ ex_i = 2
    /\ ExtractCall("aggregated_users", extract_aggregated_users(repo["aggregated_users"]))

ExtractMapTransactions ==
    /\ ex_i = 3
    /\ ExtractCall("map_transactions", extract_map_transactions(repo["map_transactions"]))

ExtractMapUsers ==
    /\ ex_i = 4
    /\ ExtractCall("map_users", extract_map_users(repo["map_users"]))

ExtractTopTransactions ==
    /\ ex_i = 5
    /\ ExtractCall("top_transactions", extract_top_transactions(repo["top_transactions"]))

ExtractTopUsers ==
    /\ ex_i = 6
    /\ ExtractCall("top_users", extract_top_users(repo["top_users"]))

\* extract_all_data lines 449-459: the summary is saved, the dict returned
ExtractAllDataDone ==
    /\ run_pc = "extract"
    /\ ex_i = Len(DSOrder) + 1
    /\ run_pc' = "check"
    /\ UNCHANGED <<yqVars, tfVars, ldVars, nmVars, clVars, exVars, run_i, extracted_data,
                   transformed_data, conn, setup_conn, error_log, success_log, failure_log,
                   exit_code>>

NextPipeline ==
    \/ ExtractAggregatedTransactions
    \/ ExtractAggregatedUsers
    \/ ExtractMapTransactions
    \/ ExtractMapUsers
    \/ ExtractTopTransactions
    \/ ExtractTopUsers
    \/ ExtractAllDataDone
    \/ NoDataExtracted
    \/ TransformAllData
    \/ GetDbConnection
    \/ GetDbConnectionError
    \/ AllDataAggregatedTransactions
    \/ AllDataAggregatedUsers
    \/ AllDataMapTransactions
    \/ AllDataMapUsers
    \/ AllDataTopTransactions
    \/ AllDataTopUsers
    \/ ExecuteRow
    \/ ExecuteError
    \/ ExecuteDone
    \/ Commit
    \/ CommitError
    \/ Rollback
    \/ InsertAllDataDone
    \/ PipelineCompleted

SpecPipeline == InitPipeline /\ [][NextPipeline]_vars

\* the position of a dataset in extract_all_data and insert_all_data
DSIndex(ds) == CHOOSE i \in DOMAIN DSOrder : DSOrder[i] = ds

\* the stored and the pending rows of the six tables
SinkRows == UNION {tables[d] \cup txn[d] : d \in DS}

\* C11: every row that reaches the sink through extract, transform and load
\* has a non-empty state, also when a region entry of a source document has
\* no name or an empty name.
C11_StateNonEmpty == \A rec \in SinkRows : rec.state # <<>>

\* a committed row of a map table with an empty state, extracted from a
\* successful document whose region entry has no name
C11_Witness ==
    \E d \in {"map_transactions", "map_users"} :
        /\ \E i \in DOMAIN repo[d] :
               repo[d][i].content.data = Some(UnnamedPayload(d))
        /\ \E rec \in tables[d] : rec.state = <<>>

\* the files of a dataset whose path yields the given year and quarter
FilesOf(ds, year, quarter) ==
    {i \in DOMAIN repo[ds] :
        extract_year_quarter(FilePath(ds, repo[ds][i])) = <<Some(year), Some(quarter)>>}

\* C12: every row that reaches the sink has a year in the accepted range and
\* a quarter in 1..4, both read from the path of a document of its dataset:
\* a document whose path yields no year or no quarter gives no row, and no
\* row carries a defaulted 0.
C12_YearQuarterInRange ==
    \A d \in DS : \A rec \in tables[d] \cup txn[d] :
        /\ rec.year \in MinYear..MaxYear
        /\ rec.quarter \in MinQuarter..MaxQuarter
        /\ FilesOf(d, rec.year, rec.quarter) # {}

\* rows are committed from a repository that also holds a successful
\* document at a path with a year and no quarter
C12_Witness ==
    \E d \in DS :
        /\ tables[d] # {}
        /\ \E i \in DOMAIN repo[d] :
               /\ repo[d][i].content = GoodContent(d)
               /\ extract_year_quarter(FilePath(d, repo[d][i]))[1] # None
               /\ extract_year_quarter(FilePath(d, repo[d][i]))[2] = None

\* a document of the repository with a true success indicator
IsSuccessful(file) ==
    file.content.kind = "object" /\ file.content.success = Some(TRUE)

\* C13: the list an extractor returns is the list it returns for the
\* documents with a true success indicator alone: a document whose success
\* indicator is false or absent contributes no record, whatever its payload.
C13_UnsuccessfulContributesNothing ==
    \A d \in DS :
        DSIndex(d) < ex_i =>
            extracted_data[d] = extract_of(d, SelectSeq(repo[d], IsSuccessful)).records

\* an extractor has returned records from a repository that also holds a
\* document with a payload and success false, or with a payload and no
\* success indicator
C13_Witness ==
    \E d \in DS :
        /\ DSIndex(d) < ex_i
        /\ extracted_data[d] # <<>>
        /\ \E i \in DOMAIN repo[d] :
               /\ repo[d][i].content.kind = "object"
               /\ repo[d][i].content.success # Some(TRUE)
               /\ repo[d][i].content.data # None
               /\ ~NoYearQuarter(extract_year_quarter(FilePath(d, repo[d][i])))

\* a document that parses to a dict with a true success indicator and a
\* data payload
IsWellFormed(file) ==
    /\ file.content.kind = "object"
    /\ file.content.success = Some(TRUE)
    /\ file.content.data # None

\* C14: a document that cannot be parsed, has no success indicator or has no
\* data payload, whatever its shape, is skipped without raising: every
\* extractor returns, and returns the records of the well-formed documents.
C14_BadDocumentSkipped ==
    /\ failure_log # "AttributeError"
    /\ \A d \in DS :
           DSIndex(d) < ex_i =>
               extracted_data[d] = extract_of(d, SelectSeq(repo[d], IsWellFormed)).records

\* the run has ended on the AttributeError of an extractor whose files are
\* a document without success indicator and a well-formed document
C14_Witness ==
    /\ run_pc = "exit"
    /\ failure_log = "AttributeError"
    /\ \E d \in DS :
           /\ \E i \in DOMAIN repo[d] : IsWellFormed(repo[d][i])
           /\ \E i \in DOMAIN repo[d] :
                  /\ repo[d][i].content.kind = "list"
                  /\ repo[d][i].content.success = None

-----------------------------------------------------------------------------
(* Further properties of the transform_* functions, on SpecTransform *)

\* C15: in the transforms of the two top-N datasets the entity_name of a
\* pincode row is the input entity_name, character for character, whatever
\* the token; the entity names of state and district rows are cleaned.
C15_PincodeVerbatim ==
    (tf_pc = "done" /\ tf_ds \in {"top_transactions", "top_users"}) =>
        \A i \in DOMAIN tf_out :
            IF tf_in[i].entity_type = T_pincode
            THEN tf_out[i].entity_name = tf_in[i].entity_name
            ELSE tf_out[i].entity_name = clean_string(tf_in[i].entity_name)

\* a top-N transform has returned a pincode row whose token is not the
\* token it was given
C15_Witness ==
    /\ tf_pc = "done" /\ tf_ds \in {"top_transactions", "top_users"}
    /\ Len(tf_out) = Len(tf_in)
    /\ \E i \in DOMAIN tf_in :
           /\ tf_in[i].entity_type = T_pincode
           /\ tf_in[i].entity_name = T_560001_x
           /\ tf_out[i].entity_type = T_pincode
           /\ tf_out[i].entity_name # T_560001_x

\* the DataFrame with a zero in every numeric cell that cannot be coerced
ZeroFilled(df) ==
    [i \in DOMAIN df |->
        [c \in DOMAIN df[i] |->
            IF c \in NumericColumns /\ df[i][c] = None THEN Some(0) ELSE df[i][c]]]

\* the numeric cells of a DataFrame that cannot be coerced
BadCells(df) ==
    {<<i, c>> \in (DOMAIN df) \X NumericColumns :
        c \in DOMAIN df[i] /\ df[i][c] = None}

\* C16: every transform_* returns, for a DataFrame with numeric cells that
\* cannot be coerced, what it returns for the DataFrame that holds zero in
\* those cells: the bad value counts as zero and nothing else changes.
C16_CoercionFailureIsZero ==
    tf_pc = "done" => tf_out = transform_of(tf_ds, ZeroFilled(tf_in))

\* a transform has returned for a DataFrame of two rows, one of them with a
\* measure that cannot be coerced
C16_Witness ==
    /\ tf_pc = "done"
    /\ Len(tf_in) = 2
    /\ Cardinality(BadCells(tf_in)) = 1
    /\ tf_out # <<>>

-----------------------------------------------------------------------------
(* Specification SpecName: normalize_state_name applied to a name and then *)
(* to its own result, on the names of the alias table in several casings    *)
(* and with surrounding whitespace.                                         *)

MaxApply == 2

\* s.upper()
Upper(s) == [i \in DOMAIN s |-> UpperChar(s[i])]

\* 'andaman & nicobar islands' written with a dotless i in 'islands'
A_andaman_dotless == [A_andaman EXCEPT ![19] = DotlessI]

NameBases == {A_andaman, N_andaman, A_dadra, N_dadra, A_jammu, N_jammu,
              A_andaman_dotless, T_goa, <<>>}

\* a name in lower, upper and title case, bare or inside whitespace
Variants(base) ==
    {pre \o cased \o post :
        pre \in {<<>>, <<" ">>},
        cased \in {base, Upper(base), Title(base)},
        post \in {<<>>, <<" ", "\t">>}}

Names == UNION {Variants(base) : base \in NameBases} \cup {PyNone}

InitName ==
    /\ nm_in \in Names
    /\ nm_out = <<>>
    /\ YqIdle
    /\ TfIdle
    /\ LdIdle
    /\ RunIdle
    /\ ExIdle
    /\ ClIdle

\* normalize_state_name(state_name), on the argument and then on each result
NormalizeStateName ==
    /\ Len(nm_out) < MaxApply
    /\ nm_out' = Append(nm_out,
                        normalize_state_name(IF Len(nm_out) = 0 THEN nm_in
                                             ELSE nm_out[Len(nm_out)]))
    /\ UNCHANGED <<nm_in, yqVars, tfVars, ldVars, runVars, exVars, clVars>>

NextName == NormalizeStateName

SpecName == InitName /\ [][NextName]_vars

\* C17: normalize_state_name is idempotent: normalizing its result gives
\* the result again, for every string.
C17_Idempotent == Len(nm_out) >= 2 => nm_out[2] = nm_out[1]

\* the name with the dotless i is normalized to the ampersand spelling of
\* the alias table, and that result to the "and" spelling
C17_Witness ==
    /\ Len(nm_out) >= 2
    /\ nm_in = A_andaman_dotless
    /\ nm_out[1] = Title(A_andaman)
    /\ nm_out[2] = Title(N_andaman)

\* the ampersand-joined names with an entry in the alias table
AmpersandNames == {A_andaman, A_dadra, A_jammu}

\* the same name joined with "and"
AndSpelling(name) == Replace(name, <<"&">>, <<"a", "n", "d">>)

\* C18: an ampersand-joined name of the alias table and its "and"-joined
\* equivalent normalize to the same string, in any casing and inside any
\* whitespace.
C18_AliasSpellingsAgree ==
    \A name \in AmpersandNames :
        (Len(nm_out) >= 1 /\ nm_in \in Variants(name)) =>
            \A other \in Variants(AndSpelling(name)) :
                normalize_state_name(other) = nm_out[1]

\* 'Jammu & Kashmir' in upper case inside whitespace has been normalized
\* to 'Jammu And Kashmir'
C18_Witness ==
    /\ Len(nm_out) >= 1
    /\ nm_in = <<" ">> \o Upper(A_jammu) \o <<" ", "\t">>
    /\ nm_out[1] = Title(AndSpelling(A_jammu))

-----------------------------------------------------------------------------
(* Further properties of run_etl_pipeline, on SpecRun *)

\* the datasets whose extractor returned records
NonEmptyDatasets == {d \in DS : extracted_data[d] # <<>>}

\* the run has gone past the test of the extracted total
PastCheck == run_pc \in {"connect", "insert", "summary", "exit"}

\* C19: a run whose six extractors returned no record ends with exit status
\* 1, with nothing transformed and no write to the sink; a run with records
\* in at least one dataset does not fail for its empty datasets: unless a
\* transform raises, it transforms the datasets that have records and, once
\* connected, calls the insert of each of them.
C19_ZeroRecordsFail ==
    /\ (PastCheck /\ NonEmptyDatasets = {}) =>
           /\ run_pc = "exit" /\ exit_code = Some(1)
           /\ DOMAIN transformed_data = {}
           /\ ld_calls = 0 /\ tables = EmptyTables /\ txn = EmptyTables
    /\ (PastCheck /\ NonEmptyDatasets # {} /\ ~transform_raises(extracted_data)) =>
           /\ failure_log # "No data extracted from repository!"
           /\ DOMAIN transformed_data = NonEmptyDatasets
           /\ (run_pc \in {"summary", "exit"} /\ conn # "unbound") =>
                  ld_calls = Cardinality(NonEmptyDatasets)

\* extract_all_data returned six empty lists and the run has ended on
\* "No data extracted from repository!"
C19_Witness ==
    /\ run_pc = "exit"
    /\ failure_log = "No data extracted from repository!"
    /\ exit_code = Some(1)
    /\ NonEmptyDatasets = {}

\* the insert_* call of the dataset has returned
Settled(d) ==
    /\ run_pc \in {"insert", "summary", "exit"}
    /\ d \in DOMAIN transformed_data
    /\ DSIndex(d) < run_i
    /\ (ld_pc = "idle" \/ ld_ds # d)

\* C20: a failed batch write aborts the transaction of its own dataset only:
\* at every later moment of the run each dataset loaded without error holds
\* exactly the rows of its batch, whatever happened to the datasets after
\* it, and each dataset whose write failed holds what it held before its
\* batch, which in a run on empty tables is nothing.
C20_FailureIsolated ==
    \A d \in DS :
        Settled(d) =>
            tables[d] = IF d \in error_log THEN {}
                        ELSE LoadedOnce(d, Records(d, transformed_data[d]))

\* the run has ended with the first dataset committed, a later dataset's
\* write failed and rolled back, and a dataset after that committed
C20_Witness ==
    /\ run_pc = "exit"
    /\ tables["aggregated_transactions"] # {}
    /\ "aggregated_users" \in error_log
    /\ tables["aggregated_users"] = {}
    /\ tables["map_transactions"] # {}

\* C21: a connection is open only inside the function that opened it: when
\* create_database_if_not_exists, execute_sql_file or insert_all_data has
\* been left, by return or by exception, its connection is not open, so no
\* run ends with a connection still open.
C21_ConnectionsClosed ==
    /\ \A f \in SetupFunctions : setup_conn[f] # "open"
    /\ conn = "open" => run_pc = "insert"

\* the run has ended on the exception of reading the schema file, the
\* connection of create_database_if_not_exists closed and the connection
\* of execute_sql_file open
C21_Witness ==
    /\ run_pc = "exit"
    /\ failure_log = "OSError"
    /\ setup_conn["create_database_if_not_exists"] = "closed"
    /\ setup_conn["execute_sql_file"] = "open"

-----------------------------------------------------------------------------
(* Further properties of the extractors and of the run, on SpecPipeline *)

MapDatasets == {"map_transactions", "map_users"}

\* a document stored under <base path>/state/<S>/
IsStateScope(file) == Len(file.rel) >= 3 /\ file.rel[1] = T_state

\* a document stored under the base path outside the state subtree
IsCountryScope(file) == ~IsStateScope(file)

\* the records of the per-state pass of a map extractor
StatePassRecords(ds, files) == ExtractStateDirs(ds, files, StateDirs(files)).records

\* C22: the list a map extractor returns holds the records of the
\* country-scope documents, with district equal to state, followed by the
\* records of the per-state pass, one per entity of each per-state document,
\* with state the lower-cased directory name; a per-state document
\* contributes through the per-state pass only.
C22_PerStateOnce ==
    \A d \in MapDatasets :
        DSIndex(d) < ex_i =>
            extracted_data[d] =
                ExtractFiles(d, SelectSeq(repo[d], IsCountryScope), None).records
                \o StatePassRecords(d, repo[d])

\* a map extractor has returned two records for a repository whose one
\* document is a per-state document with one entity
C22_Witness ==
    \E d \in MapDatasets :
        /\ DSIndex(d) < ex_i
        /\ Len(repo[d]) = 1
        /\ IsStateScope(repo[d][1])
        /\ repo[d][1].content = GoodContent(d)
        /\ Len(StatePassRecords(d, repo[d])) = 1
        /\ Len(extracted_data[d]) = 2

\* every document of the dataset is a country-scope document
CountryScopeOnly(d) == \A i \in DOMAIN repo[d] : IsCountryScope(repo[d][i])

\* C23: a map record that comes from a country-scope document has district
\* equal to state, as extracted and as the transformed row that is loaded
\* into the sink, for every region name.
C23_CountryDistrictIsState ==
    \A d \in MapDatasets :
        CountryScopeOnly(d) =>
            /\ \A i \in DOMAIN extracted_data[d] :
                   extracted_data[d][i].district = extracted_data[d][i].state
            /\ \A rec \in tables[d] \cup txn[d] : rec.district = rec.state

\* the region 'Goa' of a country-scope document, extracted with state and
\* district 'goa', is committed with state 'Goa' and district 'goa'
C23_Witness ==
    \E d \in MapDatasets :
        /\ CountryScopeOnly(d)
        /\ Len(extracted_data[d]) = 1
        /\ extracted_data[d][1].state = T_goa
        /\ extracted_data[d][1].district = T_goa
        /\ \E rec \in tables[d] : rec.state = T_Goa_n /\ rec.district = T_goa

-----------------------------------------------------------------------------
(* Specification SpecClean: clean_string applied to a string and then to   *)
(* its own result, on every string over a small alphabet of word            *)
(* characters, whitespace, a hyphen and a special character.                *)

MaxLen == 5

CleanAlphabet == {"a", "b", " ", "&", "-"}

Strings == UNION {[1..n -> CleanAlphabet] : n \in 0..MaxLen} \cup {PyNone}

InitClean ==
    /\ cl_in \in Strings
    /\ cl_out = <<>>
    /\ YqIdle
    /\ TfIdle
    /\ LdIdle
    /\ RunIdle
    /\ ExIdle
    /\ NmIdle

\* clean_string(text), on the argument and then on each result
CleanString ==
    /\ Len(cl_out) < MaxApply
    /\ cl_out' = Append(cl_out,
                        clean_string(IF Len(cl_out) = 0 THEN cl_in
                                     ELSE cl_out[Len(cl_out)]))
    /\ UNCHANGED <<cl_in, yqVars, tfVars, ldVars, runVars, exVars, nmVars>>

NextClean == CleanString

SpecClean == InitClean /\ [][NextClean]_vars

T_a_amp_b == <<"a", " ", "&", " ", "b">>

\* C24: the string clean_string returns holds only word characters, spaces
\* and hyphens, has no whitespace at either end and no two whitespace
\* characters in a row.
C24_CleanShape ==
    Len(cl_out) >= 1 =>
        LET cleaned == cl_out[1]
        IN /\ \A i \in DOMAIN cleaned :
                  IsWordChar(cleaned[i]) \/ cleaned[i] = " " \/ cleaned[i] = "-"
           /\ cleaned # <<>> =>
                  cleaned[1] \notin Whitespace /\ cleaned[Len(cleaned)] \notin Whitespace
           /\ \A i \in 1..(Len(cleaned) - 1) :
                  ~(cleaned[i] \in Whitespace /\ cleaned[i + 1] \in Whitespace)

\* 'a & b' has been cleaned to 'a  b', with the two spaces that stood around
\* the removed character
C24_Witness ==
    /\ Len(cl_out) >= 1
    /\ cl_in = T_a_amp_b
    /\ cl_out[1] = <<"a", " ", " ", "b">>

\* C30: clean_string is idempotent: cleaning its result gives the result
\* again, for every string.
C30_CleanIdempotent == Len(cl_out) >= 2 => cl_out[2] = cl_out[1]

\* 'a & b' has been cleaned to 'a  b' and that result to 'a b'
C30_Witness ==
    /\ Len(cl_out) >= 2
    /\ cl_in = T_a_amp_b
    /\ cl_out[1] # cl_out[2]
    /\ cl_out[2] = <<"a", " ", "b">>

-----------------------------------------------------------------------------
(* The buckets of the top-N extractors, on SpecPipeline *)

BucketNames == {"states", "districts", "pincodes"}

\* the entity_type the extractor gives the records of a bucket
BucketTag(bucket) ==
    CASE bucket = "states" -> T_state
      [] bucket = "districts" -> T_district
      [] bucket = "pincodes" -> T_pincode

\* the number of entities of a bucket of a document: none for a bucket that
\* is absent or null, and null entries of a list do not count
EntityCount(payload, bucket) ==
    IF payload[bucket] = None \/ payload[bucket] = Some(None) THEN 0
    ELSE LET list == Val(Val(payload[bucket]))
         IN Cardinality({i \in DOMAIN list : list[i] # None})

\* the documents of a dataset an extractor reads records from
AcceptedFiles(d) ==
    {i \in DOMAIN repo[d] :
        /\ IsWellFormed(repo[d][i])
        /\ ~NoYearQuarter(extract_year_quarter(FilePath(d, repo[d][i])))}

RECURSIVE SumEntities(_, _, _)
SumEntities(d, I, bucket) ==
    IF I = {} THEN 0
    ELSE LET i == CHOOSE j \in I : TRUE
         IN EntityCount(Val(repo[d][i].content.data), bucket)
            + SumEntities(d, I \ {i}, bucket)

\* C25: the list a top-N extractor returns holds, for each bucket, as many
\* records with the bucket's tag as the documents hold entities in that
\* bucket, whatever the other buckets of a document are (present, absent or
\* null), and no record with another entity_type.
C25_BucketsIndependent ==
    \A d \in TopDatasets :
        DSIndex(d) < ex_i =>
            /\ \A b \in BucketNames :
                   Cardinality({i \in DOMAIN extracted_data[d] :
                                   extracted_data[d][i].entity_type = BucketTag(b)})
                       = SumEntities(d, AcceptedFiles(d), b)
            /\ \A i \in DOMAIN extracted_data[d] :
                   extracted_data[d][i].entity_type \in {T_state, T_district, T_pincode}

\* a top-N extractor has returned the one pincode record of a document
\* whose states bucket is absent and whose districts bucket is null
C25_Witness ==
    \E d \in TopDatasets :
        /\ DSIndex(d) < ex_i
        /\ Len(repo[d]) = 1
        /\ AcceptedFiles(d) = {1}
        /\ Val(repo[d][1].content.data).states = None
        /\ Val(repo[d][1].content.data).districts = Some(None)
        /\ Len(extracted_data[d]) = 1
        /\ extracted_data[d][1].entity_type = T_pincode

-----------------------------------------------------------------------------
(* The transactions of insert_all_data, on SpecRun *)

\* C26: on the shared connection the only uncommitted writes are those of
\* the dataset whose insert_* call is in progress: when no call is in
\* progress, and so whenever the next dataset begins, the connection holds
\* nothing uncommitted, and a commit publishes rows of its own dataset only.
C26_TransactionsScoped ==
    /\ ld_pc = "idle" => txn = tables
    /\ ld_pc # "idle" => \A d \in DS \ {ld_ds} : txn[d] = tables[d]

\* the batch of the first dataset was rolled back and the second dataset's
\* batch is being written, uncommitted
C26_Witness ==
    /\ run_pc = "insert"
    /\ "aggregated_transactions" \in error_log
    /\ tables["aggregated_transactions"] = {}
    /\ ld_ds = "aggregated_users" /\ ld_pc = "exec" /\ ld_i = 1
    /\ txn["aggregated_users"] # tables["aggregated_users"]

-----------------------------------------------------------------------------
(* The order of the documents, on SpecPipeline *)

\* the lists find_json_files may return for the same files
WalkOrders(files) == {other \in Shuffles(files) : WalkOrder(other)}

\* the table a run without sink failure leaves for a dataset whose files
\* are listed in the given order
FinalTable(d, files) ==
    LET result == extract_of(d, files)
    IN IF result.raised \/ result.records = <<>> THEN {}
       ELSE LoadedOnce(d, Records(d, transform_of(d, result.records)))

\* C27: the content of every table after a run does not depend on the
\* order in which find_json_files returns the documents: the run on any
\* other listing of the same files leaves the same keys and measures.
C27_EnumerationOrderIndependent ==
    (run_pc = "exit" /\ exit_code = Some(0) /\ error_log = {}) =>
        \A d \in DS : \A other \in WalkOrders(repo[d]) :
            FinalTable(d, other) = tables[d]

\* a run has stored the one aggregated_users row for 2019/3 from the
\* country-scope document 2019/3.json and the per-state document
\* state/goa/2019/3.json, which carry different measures, with the measures
\* of the document listed last
C27_Witness ==
    /\ run_pc = "exit" /\ exit_code = Some(0) /\ error_log = {}
    /\ Len(repo["aggregated_users"]) = 2
    /\ AcceptedFiles("aggregated_users") = {1, 2}
    /\ repo["aggregated_users"][1].content # repo["aggregated_users"][2].content
    /\ Cardinality(tables["aggregated_users"]) = 1
    /\ \E other \in WalkOrders(repo["aggregated_users"]) :
           FinalTable("aggregated_users", other) # tables["aggregated_users"]

-----------------------------------------------------------------------------
(* The scope of the country-level datasets, on SpecPipeline *)

CountryDatasets == {"aggregated_transactions", "aggregated_users",
                    "top_transactions", "top_users"}

\* the records an extractor builds from the country-scope documents alone
CountryScopeRecords(d) ==
    ExtractFiles(d, SelectSeq(repo[d], IsCountryScope), None).records

\* C28: the extractors of the country-level datasets emit records from
\* country-scope documents only, and the transformed aggregated
\* transaction rows are the sums over the payment instruments of those
\* documents; a document under state/<S>/ contributes nothing.
C28_CountryScopeOnly ==
    /\ \A d \in CountryDatasets :
           DSIndex(d) < ex_i => extracted_data[d] = CountryScopeRecords(d)
    /\ "aggregated_transactions" \in DOMAIN transformed_data =>
           transformed_data["aggregated_transactions"] =
               transform_aggregated_transactions(
                   CountryScopeRecords("aggregated_transactions"))

\* the Recharge row for India, 2019/3 carries 20 and 200, the sums over the
\* country-scope document 2019/3.json (10, 100) and the per-state document
\* state/goa/2019/3.json (10, 100)
C28_Witness ==
    /\ Len(repo["aggregated_transactions"]) = 2
    /\ \E i \in {1, 2} :
           /\ IsStateScope(repo["aggregated_transactions"][i])
           /\ IsCountryScope(repo["aggregated_transactions"][3 - i])
    /\ \A i \in {1, 2} :
           repo["aggregated_transactions"][i].content = GoodContent("aggregated_transactions")
    /\ "aggregated_transactions" \in DOMAIN transformed_data
    /\ transformed_data["aggregated_transactions"] =
           <<[state |-> T_India_n, year |-> 2019, quarter |-> 3,
              transaction_type |-> T_Recharge,
              transaction_count |-> 20, transaction_amount |-> 200]>>

-----------------------------------------------------------------------------
(* The order of the phases of run_etl_pipeline, on SpecRun *)

\* the Loader has been called or a table has been written
LoaderWrote == ld_calls > 0 \/ tables # EmptyTables \/ txn # EmptyTables

\* the failures of the source refresh, of an extractor and of a transform
PhaseFailures == {"Repository cloning failed!", "AttributeError"}

\* C29: the phases of a run follow one another: records are extracted only
\* after setup and refresh, transformed only after the extraction, and the
\* Loader writes only after every dataset with records is transformed; a
\* run that failed in the refresh, in an extractor or in a transform has
\* written no table.
C29_PhaseOrder ==
    /\ NonEmptyDatasets # {} => run_pc \notin {"setup", "clone", "extract"}
    /\ DOMAIN transformed_data # {} =>
           /\ run_pc \notin {"setup", "clone", "extract", "check"}
           /\ DOMAIN transformed_data = NonEmptyDatasets
    /\ LoaderWrote =>
           /\ run_pc \in {"insert", "summary", "exit"}
           /\ DOMAIN transformed_data = NonEmptyDatasets
           /\ failure_log = "none"
    /\ failure_log \in PhaseFailures => ~LoaderWrote

\* a run with records in all six datasets has ended on the exception of
\* transform_all_data, every table unwritten
C29_Witness ==
    /\ run_pc = "exit" /\ exit_code = Some(1)
    /\ failure_log = "AttributeError"
    /\ NonEmptyDatasets = DS
    /\ transform_raises(extracted_data)
    /\ tables = EmptyTables /\ txn = EmptyTables /\ ld_calls = 0

====
